---- MODULE Spec2Model ----
(***************************************************************************)
(* Model of the qms-actions document audit: the document store            *)
(* (parseDocument, buildDocumentIndex), the link extractor (extractLinks), *)
(* the traceability engine (validateTraceability, validateHazardChains)    *)
(* and the risk matrix builder (buildRiskMatrix).                          *)
(*                                                                         *)
(* Text is modelled as a sequence of lexemes ("atoms"): a relationship     *)
(* marker such as "**Verifies:**", one blank " ", one line break "\n",     *)
(* "[", "]", "-", or a word.  Regular expressions are evaluated over the   *)
(* atoms exactly as the JavaScript engine evaluates them over characters.  *)
(***************************************************************************)
EXTENDS Integers, Sequences, FiniteSets, TLC

VARIABLES pc, repoType, files, config, index, documents, result, matrix,
          matrixSize, docLinks, frontmatterWarnings, linkWarnings, again,
          comments, prRuns

vars == <<pc, repoType, files, config, index, documents, result, matrix,
          matrixSize, docLinks, frontmatterWarnings, linkWarnings, again,
          comments, prRuns>>

\* the pull request and the runs in PR mode
prVars == <<comments, prRuns>>

----------------------------------------------------------------------------
(* Generic helpers on sequences.                                           *)

Range(s) == {s[i] : i \in DOMAIN s}

Min(S) == CHOOSE x \in S : \A y \in S : x <= y

Max(S) == CHOOSE x \in S : \A y \in S : x >= y

\* concatenation of a sequence of sequences, in order
RECURSIVE Flatten(_)
Flatten(ss) ==
  IF Len(ss) = 0 THEN << >>
  ELSE IF Len(ss) = 1 THEN ss[1]
  ELSE Flatten(SubSeq(ss, 1, Len(ss) \div 2))
       \o Flatten(SubSeq(ss, Len(ss) \div 2 + 1, Len(ss)))

----------------------------------------------------------------------------
(* Text: whitespace, trimming.                                             *)

\* the characters the regular expression class \s matches
IsSpace(a) == a \in {" ", "\n", "\t"}

\* String.prototype.trim
trim(s) ==
  IF \A i \in DOMAIN s : IsSpace(s[i]) THEN << >>
  ELSE LET first == Min({i \in DOMAIN s : ~IsSpace(s[i])})
           last == Max({i \in DOMAIN s : ~IsSpace(s[i])})
       IN SubSeq(s, first, last)

\* the case folding of the regular expressions' i flag, on the marker atoms
LowerCase(a) ==
  CASE a \in {"**Derives from:**", "**DERIVES FROM:**"} -> "**derives from:**"
    [] a \in {"**Verifies:**", "**VERIFIES:**"} -> "**verifies:**"
    [] a \in {"**Validates:**", "**VALIDATES:**"} -> "**validates:**"
    [] a \in {"**Implements:**", "**IMPLEMENTS:**"} -> "**implements:**"
    [] a \in {"**Mitigates:**", "**MITIGATES:**"} -> "**mitigates:**"
    [] a \in {"**Analyzes:**", "**ANALYZES:**"} -> "**analyzes:**"
    [] a \in {"**Leads to:**", "**LEADS TO:**"} -> "**leads to:**"
    [] a \in {"**Results in:**", "**RESULTS IN:**"} -> "**results in:**"
    [] OTHER -> a

----------------------------------------------------------------------------
(* extractLinks (src/index.ts, parser part).                               *)

\* the table of relationship markers, in the order the code scans them;
\* bracket = the pattern requires a bracketed identifier after the marker
linkPatterns ==
  << [marker |-> "**derives from:**", bracket |-> TRUE, type |-> "derives_from"],
     [marker |-> "**verifies:**", bracket |-> FALSE, type |-> "verified_by"],
     [marker |-> "**validates:**", bracket |-> FALSE, type |-> "validated_by"],
     [marker |-> "**implements:**", bracket |-> TRUE, type |-> "implements"],
     [marker |-> "**mitigates:**", bracket |-> TRUE, type |-> "mitigates"],
     [marker |-> "**analyzes:**", bracket |-> TRUE, type |-> "analyzes"],
     [marker |-> "**leads to:**", bracket |-> TRUE, type |-> "leads_to"],
     [marker |-> "**results in:**", bracket |-> TRUE, type |-> "results_in"] >>

\* end of the maximal run of \s atoms that starts at position i (i-1 if none)
SpaceRunEnd(s, i) ==
  Max({i - 1} \cup {j \in i..Len(s) : \A k \in i..j : IsSpace(s[k])})

\* /\[([^\]]+)\]/ anchored at position j: <<start of group, end of group>>
\* when s[j] = "[" is followed by one or more atoms other than "]" and a "]"
BracketAt(s, j) ==
  IF j <= Len(s) /\ s[j] = "[" /\ \E k \in (j + 2)..Len(s) : s[k] = "]"
  THEN LET k == Min({x \in (j + 1)..Len(s) : s[x] = "]"})
       IN IF k >= j + 2 THEN <<j + 1, k - 1>> ELSE << >>
  ELSE << >>

\* /\*\*Marker:\*\*\s*\[([^\]]+)\]/ anchored at position i:
\* [text |-> capture group 1, end |-> last position of the match] or << >>
MatchBracketPattern(s, marker, i) ==
  IF LowerCase(s[i]) # marker THEN << >>
  ELSE LET j == SpaceRunEnd(s, i + 1) + 1
           g == BracketAt(s, j)
       IN IF g = << >> THEN << >>
          ELSE [text |-> SubSeq(s, g[1], g[2]), end |-> g[2] + 1]

\* /\*\*Marker:\*\*\s*(.+)/ anchored at position i: \s* is greedy and gives
\* back blanks until (.+) finds an atom that is no line break; (.+) then runs
\* to the end of that line
MatchRestPattern(s, marker, i) ==
  IF LowerCase(s[i]) # marker THEN << >>
  ELSE LET w == SpaceRunEnd(s, i + 1)
           starts == {q \in (i + 1)..(w + 1) : q <= Len(s) /\ s[q] # "\n"}
       IN IF starts = {} THEN << >>
          ELSE LET q == Max(starts)
                   r == Max({x \in q..Len(s) : \A y \in q..x : s[y] # "\n"})
               IN [text |-> SubSeq(s, q, r), end |-> r]

MatchPattern(s, p, i) ==
  IF p.bracket THEN MatchBracketPattern(s, p.marker, i)
  ELSE MatchRestPattern(s, p.marker, i)

\* the loop "while ((match = pattern.exec(doc.body)) !== null)": the capture
\* groups of all matches of pattern p in s from position i on, left to right
RECURSIVE execAll(_, _, _)

\* the match m found, the loop goes on behind it
execAfter(s, p, m) == <<m.text>> \o execAll(s, p, m.end + 1)

\* exec takes the leftmost of the positions at which the pattern matches
execFirst(s, p, hits) ==
  IF hits = {} THEN << >> ELSE execAfter(s, p, MatchPattern(s, p, Min(hits)))

execAll(s, p, i) ==
  execFirst(s, p, {x \in i..Len(s) : MatchPattern(s, p, x) # << >>})

\* text.match(/\[([^\]]+)\]/g): the matched substrings, brackets included
RECURSIVE idMatches(_, _)
idMatches(text, i) ==
  LET hits == {x \in i..Len(text) : BracketAt(text, x) # << >>}
  IN IF hits = {} THEN << >>
     ELSE LET x == Min(hits)
              g == BracketAt(text, x)
          IN <<SubSeq(text, x, g[2] + 1)>> \o idMatches(text, g[2] + 2)

\* idMatch.replace(/[[\]]/g, '')
StripBrackets(s) == SelectSeq(s, LAMBDA a : a \notin {"[", "]"})

\* the links one match of a pattern contributes
LinksOfMatch(text, type) ==
  LET ids == idMatches(text, 1)
  IN IF ids # << >>
     THEN [n \in 1..Len(ids) |-> [type |-> type, targetId |-> StripBrackets(ids[n])]]
     ELSE IF trim(text) # << >>
          THEN << [type |-> type, targetId |-> trim(text)] >>
          ELSE << >>

RECURSIVE LinksOfMatches(_, _)
LinksOfMatches(texts, type) ==
  IF texts = << >> THEN << >>
  ELSE LinksOfMatch(Head(texts), type) \o LinksOfMatches(Tail(texts), type)

extractLinks(doc) ==
  Flatten([n \in 1..Len(linkPatterns) |->
             LinksOfMatches(execAll(doc.body, linkPatterns[n], 1),
                            linkPatterns[n].type)])

----------------------------------------------------------------------------
(* JavaScript values of the frontmatter: a number (kept in halves, so that  *)
(* 2.5 is representable), NaN, a string of atoms, or undefined (absent).    *)

Num(n) == [k |-> "num", halves |-> 2 * n, s |-> << >>]

Half(h) == [k |-> "num", halves |-> h, s |-> << >>]

NaN == [k |-> "nan", halves |-> 0, s |-> << >>]

Str(atoms) == [k |-> "str", halves |-> 0, s |-> atoms]

undefined == [k |-> "undefined", halves |-> 0, s |-> << >>]

\* data[key] of the parsed frontmatter
Field(data, key) == IF key \in DOMAIN data THEN data[key] ELSE undefined

\* JavaScript truthiness
Truthy(v) ==
  CASE v.k = "num" -> v.halves # 0
    [] v.k = "str" -> v.s # << >>
    [] OTHER -> FALSE

\* the decimal digits \d matches, with their values
DigitValue(a) ==
  CASE a = "0" -> 0 [] a = "1" -> 1 [] a = "2" -> 2 [] a = "3" -> 3
    [] a = "4" -> 4 [] a = "5" -> 5 [] a = "6" -> 6 [] a = "7" -> 7
    [] a = "8" -> 8 [] a = "9" -> 9 [] OTHER -> -1

\* Number of a string, t being the string without its surrounding blanks: one
\* digit atom is that digit, the empty string is 0, any other string of the
\* model is not numeric
StringToNumber(t) ==
  IF t = << >> THEN Num(0)
  ELSE IF Len(t) = 1 /\ DigitValue(t[1]) >= 0 THEN Num(DigitValue(t[1]))
  ELSE NaN

\* Number(v): a number is itself
Number(v) ==
  CASE v.k = "num" -> v
    [] v.k = "str" -> StringToNumber(trim(v.s))
    [] OTHER -> NaN

IsInteger(v) == v.k = "num" /\ v.halves % 2 = 0

\* lo <= v && v <= hi (every comparison with NaN is false)
Within(v, lo, hi) == v.k = "num" /\ 2 * lo <= v.halves /\ v.halves <= 2 * hi

\* a ?? b
Coalesce(a, b) == IF a.k = "undefined" THEN b ELSE a

----------------------------------------------------------------------------
(* Insertion-ordered Map, as a sequence of <<key, value>> entries.          *)

MapHas(m, key) == \E i \in DOMAIN m : m[i][1] = key

MapGet(m, key) == m[CHOOSE i \in DOMAIN m : m[i][1] = key][2]

\* Array.from(map.values())
MapValues(m) == [i \in DOMAIN m |-> m[i][2]]

\* map.get(key) ?? []
GetOrEmpty(m, key) == IF MapHas(m, key) THEN MapGet(m, key) ELSE << >>

----------------------------------------------------------------------------
(* Document store (src/index.ts, parser part).                              *)

DirTypeKeys ==
  {"user-needs", "product-requirements", "software-requirements",
   "architecture", "design", "test", "risk", "sops", "policies",
   "work-instructions", "external-reports", "harms", "situations",
   "software", "usability", "security"}

\* DIR_TYPE_MAP is an object literal: DIR_TYPE_MAP[dir] also yields the
\* members every object inherits from Object.prototype, which are truthy
InheritedKeys == {"constructor", "toString"}

DIR_TYPE_MAP(dir) ==
  CASE dir = "user-needs" -> "user_need"
    [] dir = "product-requirements" -> "product_requirement"
    [] dir = "software-requirements" -> "software_requirement"
    [] dir = "architecture" -> "architecture"
    [] dir = "design" -> "detailed_design"
    [] dir = "test" -> "test_case"
    [] dir = "risk" -> "risk"
    [] dir = "sops" -> "sop"
    [] dir = "policies" -> "policy"
    [] dir = "work-instructions" -> "work_instruction"
    [] dir = "external-reports" -> "external_report"
    [] dir = "harms" -> "harm"
    [] dir = "situations" -> "hazardous_situation"
    [] dir \in {"software", "usability", "security"} -> "risk"
    [] dir = "constructor" -> "function Object"
    [] dir = "toString" -> "function toString"

\* filePath is the sequence of the path's segments, the file name last
inferDocType(filePath) ==
  LET dirs == {i \in 1..(Len(filePath) - 1) :
                 filePath[i] \in DirTypeKeys \cup InheritedKeys}
  IN IF dirs = {} THEN "unknown" ELSE DIR_TYPE_MAP(filePath[Max(dirs)])

\* String.prototype.toUpperCase on the id prefixes of the model
UpperCase(a) ==
  CASE a = "srs" -> "SRS" [] a = "tc" -> "TC" [] a = "haz" -> "HAZ"
    [] a = "risk" -> "RISK" [] OTHER -> a

prefixMap(prefix) ==
  CASE prefix = "UN" -> "user_need"
    [] prefix = "PRS" -> "product_requirement"
    [] prefix = "SRS" -> "software_requirement"
    [] prefix = "SDD" -> "detailed_design"
    [] prefix = "HLD" -> "architecture"
    [] prefix = "TC" -> "test_case"
    [] prefix = "RISK" -> "risk"
    [] prefix = "HAZ" -> "hazard"
    [] prefix = "HS" -> "hazardous_situation"
    [] prefix = "HARM" -> "harm"
    [] prefix = "SOP" -> "sop"
    [] prefix = "POL" -> "policy"
    [] prefix = "WI" -> "work_instruction"
    [] prefix \in {"AUD", "PT"} -> "external_report"
    [] OTHER -> "unknown"

\* id.split('-')[0]: the atoms before the first "-"
FirstPart(id) ==
  LET dashes == {i \in DOMAIN id : id[i] = "-"}
  IN IF dashes = {} THEN id ELSE SubSeq(id, 1, Min(dashes) - 1)

inferTypeFromId(id) ==
  LET prefix == FirstPart(id)
  IN IF Len(prefix) = 1 THEN prefixMap(UpperCase(prefix[1])) ELSE "unknown"

\* the id of a file's frontmatter: (data.id as string) ?? ''
IdOf(file) == IF "id" \in DOMAIN file.data THEN file.data.id.s ELSE << >>

\* parseDocument returns null for a file without a non-empty id
Parses(file) == IdOf(file) # << >>

\* mutant: the id prefix is consulted before the directories
parseDocument_PrefixFirst(file) ==
  [filePath |-> file.path,
   id |-> IdOf(file),
   title |-> Coalesce(Field(file.data, "title"), Str(<<"Untitled">>)),
   status |-> Coalesce(Field(file.data, "status"), Str(<<"unknown">>)),
   docType |-> IF inferTypeFromId(IdOf(file)) = "unknown"
               THEN inferDocType(file.path) ELSE inferTypeFromId(IdOf(file)),
   frontmatter |-> file.data,
   body |-> file.body]

parseDocument(file) ==
  LET id == IdOf(file)
      byDir == inferDocType(file.path)
  IN [filePath |-> file.path,
      id |-> id,
      title |-> Coalesce(Field(file.data, "title"), Str(<<"Untitled">>)),
      status |-> Coalesce(Field(file.data, "status"), Str(<<"unknown">>)),
      docType |-> IF byDir = "unknown" THEN inferTypeFromId(id) ELSE byDir,
      frontmatter |-> file.data,
      body |-> file.body]

\* The positions at which a loop of map.set(keys[i], ...) inserts a new key:
\* a key sits where it was first set.  (Written without recursion: the lists
\* run to hundreds of documents.)
Firsts(keys) ==
  SelectSeq([i \in DOMAIN keys |-> i],
            LAMBDA i : \A j \in 1..(i - 1) : keys[j] # keys[i])

\* mutant: byId keeps the first document with the id
LastWithId_First(docs, id) == docs[Min({i \in DOMAIN docs : docs[i].id = id})]

\* the last document of docs with a given id / path
LastWithId(docs, id) == docs[Max({i \in DOMAIN docs : docs[i].id = id})]

LastWithPath(docs, path) == docs[Max({i \in DOMAIN docs : docs[i].filePath = path})]

\* the documents the loop of buildDocumentIndex (lines 493-503) indexes, in
\* order: a file parseDocument returns null for is skipped
parsedDocuments(markdownFiles) ==
  LET parsed == SelectSeq(markdownFiles, Parses)
  IN [i \in DOMAIN parsed |-> parseDocument(parsed[i])]

\* the three maps after the loop: byId.set and byPath.set overwrite, the
\* by-type list is appended to
indexDocuments(docs) ==
  LET ids == Firsts([i \in DOMAIN docs |-> docs[i].id])
      paths == Firsts([i \in DOMAIN docs |-> docs[i].filePath])
      types == Firsts([i \in DOMAIN docs |-> docs[i].docType])
  IN [byId |-> [n \in DOMAIN ids |->
                  <<docs[ids[n]].id, LastWithId(docs, docs[ids[n]].id)>>],
      byPath |-> [n \in DOMAIN paths |->
                    <<docs[paths[n]].filePath,
                      LastWithPath(docs, docs[paths[n]].filePath)>>],
      byType |-> [n \in DOMAIN types |->
                    <<docs[types[n]].docType,
                      SelectSeq(docs, LAMBDA d : d.docType = docs[types[n]].docType)>>]]

buildDocumentIndex(markdownFiles) == indexDocuments(parsedDocuments(markdownFiles))

EmptyIndex == [byId |-> << >>, byPath |-> << >>, byType |-> << >>]

----------------------------------------------------------------------------
(* IEEE 754 binary64 arithmetic of                                          *)
(*   Math.round((coveredCount / sourceDocs.length) * 100).                  *)
(* A positive double is [m, e]: m its 53 significand bits, most significant *)
(* first (m[1] = 1), e the binary exponent of m[1].                         *)

SignificandBits == 53

\* the n low bits of a natural number, most significant first
ToBits(x, n) == [i \in 1..n |-> (x \div (2 ^ (n - i))) % 2]

RECURSIVE FromBits(_)
FromBits(b) ==
  IF b = << >> THEN 0 ELSE 2 * FromBits(SubSeq(b, 1, Len(b) - 1)) + b[Len(b)]

\* b + 1, on Len(b) + 1 bits
Increment(b) ==
  LET zeros == {i \in DOMAIN b : b[i] = 0}
  IN IF zeros = {} THEN <<1>> \o [i \in DOMAIN b |-> 0]
     ELSE LET z == CHOOSE i \in zeros : \A j \in zeros : j <= i
          IN <<0>> \o [i \in DOMAIN b |->
                         IF i < z THEN b[i] ELSE IF i = z THEN 1 ELSE 0]

StripLeadingZeros(b) ==
  LET ones == {i \in DOMAIN b : b[i] = 1}
  IN IF ones = {} THEN << >>
     ELSE SubSeq(b, CHOOSE i \in ones : \A j \in ones : i <= j, Len(b))

\* round an exact bit string (leading bit 1 of exponent e; sticky = a
\* non-zero part lies below the string) to 53 bits, to nearest, ties to even
RoundToDouble(bits, e, sticky) ==
  LET kept == SubSeq(bits, 1, SignificandBits)
      rest == SubSeq(bits, SignificandBits + 1, Len(bits))
      guard == rest # << >> /\ rest[1] = 1
      below == sticky \/ \E i \in 2..Len(rest) : rest[i] = 1
      up == guard /\ (below \/ kept[SignificandBits] = 1)
      inc == Increment(kept)
  IN IF ~up THEN [m |-> kept, e |-> e]
     ELSE IF inc[1] = 1 THEN [m |-> SubSeq(inc, 1, SignificandBits), e |-> e + 1]
     ELSE [m |-> SubSeq(inc, 2, SignificandBits + 1), e |-> e]

\* c / t for integers 0 < c <= t < 2^20: the quotient's leading bit, then 55
\* more bits by long division in limbs of 11 bits, then the rounding
FloatDivide(c, t) ==
  LET shift == CHOOSE i \in 0..20 :
                 c * (2 ^ i) >= t /\ (i = 0 \/ c * (2 ^ (i - 1)) < t)
      r0 == c * (2 ^ shift) - t
      r1 == (r0 * 2048) % t
      r2 == (r1 * 2048) % t
      r3 == (r2 * 2048) % t
      r4 == (r3 * 2048) % t
      r5 == (r4 * 2048) % t
      bits == <<1>> \o ToBits((r0 * 2048) \div t, 11) \o ToBits((r1 * 2048) \div t, 11)
                    \o ToBits((r2 * 2048) \div t, 11) \o ToBits((r3 * 2048) \div t, 11)
                    \o ToBits((r4 * 2048) \div t, 11)
  IN RoundToDouble(bits, -shift, r5 # 0)

\* x * 100 for a positive double x, the significand taken in limbs of 11 bits
FloatTimes100(x) ==
  LET limb(k) == FromBits(SubSeq(x.m, IF k = 4 THEN 1 ELSE 43 - 11 * k, 53 - 11 * k))
      v0 == limb(0) * 100
      v1 == limb(1) * 100 + v0 \div 2048
      v2 == limb(2) * 100 + v1 \div 2048
      v3 == limb(3) * 100 + v2 \div 2048
      v4 == limb(4) * 100 + v3 \div 2048
      product == StripLeadingZeros(
                   ToBits(v4, 16) \o ToBits(v3 % 2048, 11) \o ToBits(v2 % 2048, 11)
                   \o ToBits(v1 % 2048, 11) \o ToBits(v0 % 2048, 11))
  IN RoundToDouble(product, x.e - (SignificandBits - 1) + Len(product) - 1, FALSE)

\* Math.round of a positive double below 2^31: the nearest integer, a tie
\* going up
MathRound(x) ==
  IF x.e < -1 THEN 0
  ELSE FromBits(SubSeq(x.m, 1, x.e + 1)) + x.m[x.e + 2]

----------------------------------------------------------------------------
(* Traceability engine (src/validators/traceability.ts).                    *)

\* docLinks.get(id) ?? []: docLinks.set(doc.id, extractLinks(doc)) ran for
\* every document of the list in order, so the last document with the id wins
docLinksGet(docs, id) ==
  LET hits == {i \in DOMAIN docs : docs[i].id = id}
  IN IF hits = {} THEN << >> ELSE extractLinks(docs[Max(hits)])

\* links.some(...) of lines 42-49
hasRequiredLink(links, chain) ==
  \E n \in DOMAIN links :
    IF chain.link = "verified_by"
    THEN links[n].type = "verified_by" \/ links[n].type = "validated_by"
    ELSE links[n].type = chain.link

\* mutant: the reverse check forgets to compare the link's target id
coversSource_AnyTarget(targetLinks, sourceId) ==
  \E n \in DOMAIN targetLinks :
    targetLinks[n].type = "verified_by" \/ targetLinks[n].type = "validated_by"

\* targetLinks.some(...) of lines 58-63
coversSource(targetLinks, sourceId) ==
  \E n \in DOMAIN targetLinks :
    /\ targetLinks[n].type = "verified_by" \/ targetLinks[n].type = "validated_by"
    /\ targetLinks[n].targetId = sourceId

\* targetDocs.some(...) of lines 56-64
someTargetCovers(docs, targetDocs, sourceDoc) ==
  \E t \in DOMAIN targetDocs :
    coversSource(docLinksGet(docs, targetDocs[t].id), sourceDoc.id)

hasCoveringTarget(docs, idx, chain, sourceDoc) ==
  someTargetCovers(docs, GetOrEmpty(idx.byType, chain.target), sourceDoc)

ruleMap(link) ==
  CASE link = "derives_from" -> "traceability/requirement-derivation"
    [] link = "verified_by" -> "traceability/test-coverage"
    [] link = "mitigates" -> "traceability/risk-mitigation"
    [] link = "implements" -> "traceability/design-coverage"
    [] OTHER -> "traceability/missing-link"

\* the template strings, kept as the values they interpolate
Message(template, id, chain) ==
  [template |-> template, id |-> id, source |-> chain.source,
   link |-> chain.link, target |-> chain.target]

NoChain == [source |-> "", target |-> "", link |-> ""]

\* warnings.push(...) and gaps.push(...) of lines 78-90
chainFinding(chain, sourceDoc) ==
  [warning |-> [file |-> sourceDoc.filePath,
                rule |-> ruleMap(chain.link),
                message |-> Message("has no link to a", sourceDoc.id, chain),
                severity |-> "warning"],
   gap |-> [documentId |-> sourceDoc.id,
            gapType |-> <<"missing_", chain.link>>,
            message |-> Message("No link to", << >>, chain),
            severity |-> "warning"]]

\* mutant: the reverse branch counts the document and, without its
\* "continue", falls through to the pushes
sourceStep_NoContinue(docs, idx, chain, sourceDoc) ==
  IF hasRequiredLink(docLinksGet(docs, sourceDoc.id), chain)
  THEN [covered |-> 1, findings |-> << >>]
  ELSE IF chain.link = "verified_by" /\ hasCoveringTarget(docs, idx, chain, sourceDoc)
       THEN [covered |-> 1, findings |-> <<chainFinding(chain, sourceDoc)>>]
       ELSE [covered |-> 0, findings |-> <<chainFinding(chain, sourceDoc)>>]

\* one iteration of the loop over sourceDocs (lines 40-92): what it adds to
\* coveredCount and what it pushes
sourceStep(docs, idx, chain, sourceDoc) ==
  IF hasRequiredLink(docLinksGet(docs, sourceDoc.id), chain)
  THEN [covered |-> 1, findings |-> << >>]
  ELSE IF chain.link = "verified_by" /\ hasCoveringTarget(docs, idx, chain, sourceDoc)
       THEN [covered |-> 1, findings |-> << >>]
       ELSE [covered |-> 0, findings |-> <<chainFinding(chain, sourceDoc)>>]

\* the concatenation of the findings of a sequence of steps, each pushing
\* at most one
Pushed(steps) ==
  LET some == SelectSeq(steps, LAMBDA st : st.findings # << >>)
  IN [n \in DOMAIN some |-> some[n].findings[1]]

\* mutant: Math.ceil in place of Math.round
coveragePercent_Ceil(coveredCount, total) ==
  IF total > 0 THEN (100 * coveredCount + total - 1) \div total ELSE 100

coveragePercent(coveredCount, total) ==
  IF total > 0
  THEN IF coveredCount = 0 THEN 0
       ELSE MathRound(FloatTimes100(FloatDivide(coveredCount, total)))
  ELSE 100

\* coverage.push(...) of lines 94-102 and the findings of the chain's source
\* documents; chainName, a display string, is left out of the coverage entry
chainEntry(chain, total, steps, coveredCount) ==
  [findings |-> Pushed(steps),
   coverage |-> [sourceType |-> chain.source,
                 targetType |-> chain.target,
                 totalSources |-> total,
                 coveredSources |-> coveredCount,
                 coveragePercent |-> coveragePercent(coveredCount, total)]]

\* the loop over sourceDocs (lines 40-92) with its counter
chainCount(chain, total, steps) ==
  chainEntry(chain, total, steps, Len(SelectSeq(steps, LAMBDA st : st.covered = 1)))

chainLoop(docs, idx, chain, sourceDocs) ==
  chainCount(chain, Len(sourceDocs),
             [n \in DOMAIN sourceDocs |-> sourceStep(docs, idx, chain, sourceDocs[n])])

\* one iteration of the loop over the chains (lines 36-103)
chainStep(docs, idx, chain) ==
  chainLoop(docs, idx, chain, GetOrEmpty(idx.byType, chain.source))

\* links.find((l) => l.type === type): the first link of the type, or << >>
findLink(links, type) ==
  LET hits == {n \in DOMAIN links : links[n].type = type}
  IN IF hits = {} THEN << >> ELSE links[Min(hits)]

hazardFinding(template, gapType, gapMessage, doc, id) ==
  [warning |-> [file |-> doc.filePath,
                rule |-> "traceability/hazard-chain",
                message |-> Message(template, id, NoChain),
                severity |-> "warning"],
   gap |-> [documentId |-> id,
            gapType |-> <<gapType>>,
            message |-> Message(gapMessage, << >>, NoChain),
            severity |-> "warning"]]

\* lines 144-164: the hazardous situation leadsTo names and its results_in
situationStep(docs, idx, leadsTo) ==
  IF ~MapHas(idx.byId, leadsTo.targetId) THEN << >>
  ELSE IF findLink(docLinksGet(docs, leadsTo.targetId), "results_in") = << >>
  THEN << hazardFinding("Hazardous situation has no results_in harm",
                        "situation_no_harm",
                        "Situation has no results_in link",
                        MapGet(idx.byId, leadsTo.targetId),
                        leadsTo.targetId) >>
  ELSE << >>

\* lines 131-143: the hazard's leads_to link
leadsToStep(docs, idx, hazardId, leadsTo) ==
  IF leadsTo = << >>
  THEN << hazardFinding("Hazard has no leads_to hazardous situation",
                        "hazard_no_situation",
                        "Hazard has no leads_to link",
                        MapGet(idx.byId, hazardId), hazardId) >>
  ELSE situationStep(docs, idx, leadsTo)

\* lines 125-130: the hazard the risk analyzes
hazardStep(docs, idx, hazardId) ==
  IF ~MapHas(idx.byId, hazardId) THEN << >>
  ELSE leadsToStep(docs, idx, hazardId,
                   findLink(docLinksGet(docs, hazardId), "leads_to"))

\* line 123
analyzesStep(docs, idx, analyzesLink) ==
  IF analyzesLink = << >> THEN << >>
  ELSE hazardStep(docs, idx, analyzesLink.targetId)

\* one iteration of the loop of validateHazardChains (lines 120-165)
riskStep(docs, idx, risk) ==
  analyzesStep(docs, idx, findLink(docLinksGet(docs, risk.id), "analyzes"))

\* mutant: the loop ends at the first risk whose hazard is not indexed
validateHazardChains_Break(docs, idx) ==
  LET risks == GetOrEmpty(idx.byType, "risk")
      stops == {r \in DOMAIN risks :
                  /\ findLink(docLinksGet(docs, risks[r].id), "analyzes") # << >>
                  /\ ~MapHas(idx.byId,
                             findLink(docLinksGet(docs, risks[r].id), "analyzes").targetId)}
      last == IF stops = {} THEN Len(risks) ELSE Min(stops) - 1
  IN Pushed([r \in 1..last |-> [findings |-> riskStep(docs, idx, risks[r])]])

validateHazardChains(docs, idx) ==
  LET risks == GetOrEmpty(idx.byType, "risk")
  IN Pushed([r \in DOMAIN risks |-> [findings |-> riskStep(docs, idx, risks[r])]])

EmptyResult == [warnings |-> << >>, coverage |-> << >>, gaps |-> << >>]

\* return { warnings, coverage, gaps } of line 108
traceabilityResult(steps, found) ==
  [warnings |-> [n \in DOMAIN found |-> found[n].warning],
   coverage |-> [c \in DOMAIN steps |-> steps[c].coverage],
   gaps |-> [n \in DOMAIN found |-> found[n].gap]]

\* the pushes of the chains in order, then those of validateHazardChains
\* (line 106)
traceabilityFindings(docs, idx, steps) ==
  traceabilityResult(steps,
                     Flatten([c \in DOMAIN steps |-> steps[c].findings])
                     \o validateHazardChains(docs, idx))

\* the loop over the chains (lines 36-103)
chainsLoop(docs, idx, chains) ==
  traceabilityFindings(docs, idx,
                       [c \in DOMAIN chains |-> chainStep(docs, idx, chains[c])])

\* mutant: the early return for a configuration that is not 'device' is lost
validateTraceability_NoEarlyExit(docs, idx, cfg) ==
  chainsLoop(docs, idx, cfg.traceability.chains)

validateTraceability(docs, idx, cfg) ==
  IF cfg.type # "device" THEN EmptyResult
  ELSE chainsLoop(docs, idx, cfg.traceability.chains)

----------------------------------------------------------------------------
(* Risk matrix (src/reports/risk-matrix.ts).                                *)

\* rows = probability 1..5 (remote to frequent), columns = severity 1..5
DEFAULT_ACCEPTABILITY ==
  << <<"acceptable", "acceptable", "acceptable", "acceptable", "review_required">>,
     <<"acceptable", "acceptable", "acceptable", "review_required", "review_required">>,
     <<"acceptable", "acceptable", "review_required", "review_required", "unacceptable">>,
     <<"acceptable", "review_required", "review_required", "unacceptable", "unacceptable">>,
     <<"review_required", "review_required", "unacceptable", "unacceptable", "unacceptable">> >>

\* the case folding of the i flag, on the words of the risk tables
LowerCaseWord(a) ==
  CASE a \in {"Severity", "SEVERITY"} -> "severity"
    [] a \in {"Probability", "PROBABILITY"} -> "probability"
    [] a \in {"Residual", "RESIDUAL"} -> "residual"
    [] OTHER -> a

\* the atom at position p, "" past the end
At(s, p) == IF p \in DOMAIN s THEN s[p] ELSE ""

\* \s*word1\s*word2... matched from position p: the position after the last
\* word, 0 when the words do not follow
RECURSIVE AfterWords(_, _, _)
AfterWords(s, words, p) ==
  IF words = << >> THEN p
  ELSE LET q == SpaceRunEnd(s, p) + 1
       IN IF LowerCaseWord(At(s, q)) = Head(words)
          THEN AfterWords(s, Tail(words), q + 1)
          ELSE 0

\* /\|\s*Word\s*...\|\s*(\d)/i anchored at position i: the digit captured,
\* -1 when the pattern does not match there
rowDigitAt(s, words, i) ==
  IF At(s, i) # "|" THEN -1
  ELSE LET p == AfterWords(s, words, i + 1)
       IN IF p = 0 THEN -1
          ELSE LET q == SpaceRunEnd(s, p) + 1
               IN IF At(s, q) # "|" THEN -1
                  ELSE DigitValue(At(s, SpaceRunEnd(s, q + 1) + 1))

\* the first match counts: parseInt of its group
firstRowDigit(body, words, hits) ==
  IF hits = {} THEN undefined ELSE Num(rowDigitAt(body, words, Min(hits)))

\* body.match(pattern) and parseInt of its group
bodyMatch(body, words) ==
  firstRowDigit(body, words, {i \in DOMAIN body : rowDigitAt(body, words, i) >= 0})

Values(found, severity, probability, residualSeverity, residualProbability) ==
  [found |-> found, severity |-> severity, probability |-> probability,
   residualSeverity |-> residualSeverity, residualProbability |-> residualProbability]

\* the return of lines 31-38
frontmatterValues(severity, probability, residual_severity, residual_probability) ==
  Values(TRUE, Number(severity), Number(probability),
         IF Truthy(residual_severity) THEN Number(residual_severity) ELSE undefined,
         IF Truthy(residual_probability) THEN Number(residual_probability) ELSE undefined)

\* lines 48-57
bodyValues(severityMatch, probabilityMatch, residualSeverityMatch, residualProbabilityMatch) ==
  IF severityMatch = undefined \/ probabilityMatch = undefined
  THEN Values(FALSE, undefined, undefined, undefined, undefined)
  ELSE Values(TRUE, severityMatch, probabilityMatch,
              residualSeverityMatch, residualProbabilityMatch)

\* found = FALSE is the null of the code
extractRiskValues(doc) ==
  IF /\ Truthy(Field(doc.frontmatter, "severity"))
     /\ Truthy(Field(doc.frontmatter, "probability"))
  THEN frontmatterValues(Field(doc.frontmatter, "severity"),
                         Field(doc.frontmatter, "probability"),
                         Field(doc.frontmatter, "residual_severity"),
                         Field(doc.frontmatter, "residual_probability"))
  ELSE bodyValues(bodyMatch(doc.body, <<"severity">>),
                  bodyMatch(doc.body, <<"probability">>),
                  bodyMatch(doc.body, <<"residual", "severity">>),
                  bodyMatch(doc.body, <<"residual", "probability">>))

\* the default of buildRiskMatrix's parameter
gridSize == 5

createGrid(size) == [p \in 1..size |-> [s \in 1..size |-> 0]]

\* v < n and v > n (false for NaN)
Less(v, n) == v.k = "num" /\ v.halves < 2 * n

Greater(v, n) == v.k = "num" /\ v.halves > 2 * n

\* "TypeError": DEFAULT_ACCEPTABILITY[probability - 1] is undefined and is
\* indexed; "undefined": the row has no element severity - 1
getAcceptability(probability, severity) ==
  IF Less(probability, 1) \/ Greater(probability, 5)
     \/ Less(severity, 1) \/ Greater(severity, 5)
  THEN "review_required"
  ELSE IF ~IsInteger(probability) THEN "TypeError"
  ELSE IF ~IsInteger(severity) THEN "undefined"
  ELSE DEFAULT_ACCEPTABILITY[probability.halves \div 2][severity.halves \div 2]

\* the guard of lines 85 and 92
InGrid(probability, severity, size) ==
  Within(probability, 1, size) /\ Within(severity, 1, size)

\* mutant: the cell incremented is the transposed one
increment_Transposed(grid, probability, severity, size) ==
  IF InGrid(probability, severity, size) /\ IsInteger(probability) /\ IsInteger(severity)
  THEN [grid EXCEPT ![severity.halves \div 2][probability.halves \div 2] = @ + 1]
  ELSE grid

\* grid[probability - 1][severity - 1]++ under its guard; a fractional
\* severity adds a stray property to the row and changes no cell
increment(grid, probability, severity, size) ==
  IF InGrid(probability, severity, size) /\ IsInteger(probability) /\ IsInteger(severity)
  THEN [grid EXCEPT ![probability.halves \div 2][severity.halves \div 2] = @ + 1]
  ELSE grid

\* the increment throws a TypeError when grid[probability - 1] is undefined
incrementThrows(probability, severity, size) ==
  InGrid(probability, severity, size) /\ ~IsInteger(probability)

NoMatrix(kind) ==
  [kind |-> kind, inherent |-> << >>, residual |-> << >>, risks |-> << >>,
   summary |-> [total |-> 0, acceptable |-> 0, reviewRequired |-> 0, unacceptable |-> 0]]

Bump(summary, status) ==
  CASE status = "acceptable" -> [summary EXCEPT !.acceptable = @ + 1]
    [] status = "review_required" -> [summary EXCEPT !.reviewRequired = @ + 1]
    [] status = "unacceptable" -> [summary EXCEPT !.unacceptable = @ + 1]
    [] OTHER -> summary

mitigatesOf(doc) ==
  LET links == SelectSeq(extractLinks(doc), LAMBDA l : l.type = "mitigates")
  IN [n \in DOMAIN links |-> links[n].targetId]

\* lines 85-123 once the acceptability is known; a thrown TypeError ends the
\* call
riskEntryStep(m, doc, values, resSev, resProb, acceptabilityStatus, size) ==
  IF \/ incrementThrows(values.probability, values.severity, size)
     \/ incrementThrows(resProb, resSev, size)
     \/ acceptabilityStatus = "TypeError"
  THEN NoMatrix("TypeError")
  ELSE [kind |-> "matrix",
        inherent |-> increment(m.inherent, values.probability, values.severity, size),
        residual |-> increment(m.residual, resProb, resSev, size),
        risks |-> Append(m.risks,
                         [id |-> doc.id, title |-> doc.title,
                          severity |-> values.severity,
                          probability |-> values.probability,
                          residualSeverity |-> values.residualSeverity,
                          residualProbability |-> values.residualProbability,
                          mitigates |-> mitigatesOf(doc),
                          acceptability |-> acceptabilityStatus]),
        summary |-> [Bump(m.summary, acceptabilityStatus) EXCEPT !.total = @ + 1]]

\* mutant: the tier is taken from the inherent values
acceptabilityStep_InherentTier(m, doc, values, resSev, resProb, size) ==
  riskEntryStep(m, doc, values, resSev, resProb,
                getAcceptability(values.probability, values.severity), size)

\* line 97: the acceptability comes from the residual values
acceptabilityStep(m, doc, values, resSev, resProb, size) ==
  riskEntryStep(m, doc, values, resSev, resProb, getAcceptability(resProb, resSev), size)

\* mutant: a document without values is counted in the summary
riskValuesStep_CountMissing(m, doc, values, size) ==
  IF ~values.found THEN [m EXCEPT !.summary.total = @ + 1]
  ELSE acceptabilityStep(m, doc, values,
                         Coalesce(values.residualSeverity, values.severity),
                         Coalesce(values.residualProbability, values.probability),
                         size)

\* lines 80 and 90-91: a document without values is skipped; a missing
\* residual value falls back to the inherent one
riskValuesStep(m, doc, values, size) ==
  IF ~values.found THEN m
  ELSE acceptabilityStep(m, doc, values,
                         Coalesce(values.residualSeverity, values.severity),
                         Coalesce(values.residualProbability, values.probability),
                         size)

\* one iteration of the loop of lines 78-124; nothing runs after a throw
riskDocStep(m, doc, size) ==
  IF m.kind = "TypeError" THEN m
  ELSE riskValuesStep(m, doc, extractRiskValues(doc), size)

RECURSIVE riskLoop(_, _, _, _)
riskLoop(m, riskDocs, i, size) ==
  IF i > Len(riskDocs) THEN m
  ELSE riskLoop(riskDocStep(m, riskDocs[i], size), riskDocs, i + 1, size)

\* mutant: returns null when no risk document yields values
buildRiskMatrix_NullWhenEmpty(idx, size) ==
  LET riskDocs == GetOrEmpty(idx.byType, "risk")
  IN IF \A i \in DOMAIN riskDocs : ~extractRiskValues(riskDocs[i]).found
     THEN NoMatrix("null")
     ELSE riskLoop([NoMatrix("matrix") EXCEPT !.inherent = createGrid(size),
                                              !.residual = createGrid(size)],
                   riskDocs, 1, size)

\* kind "null": the call returns null; "matrix": it returns the matrix;
\* "TypeError": it throws
buildRiskMatrix(idx, size) ==
  LET riskDocs == GetOrEmpty(idx.byType, "risk")
  IN IF Len(riskDocs) = 0 THEN NoMatrix("null")
     ELSE riskLoop([NoMatrix("matrix") EXCEPT !.inherent = createGrid(size),
                                              !.residual = createGrid(size)],
                   riskDocs, 1, size)

----------------------------------------------------------------------------
(* Configuration (src/config.ts).                                           *)

Chain(source, target, link) == [source |-> source, target |-> target, link |-> link]

DEFAULT_DEVICE_CHAINS ==
  << Chain("product_requirement", "user_need", "derives_from"),
     Chain("software_requirement", "product_requirement", "derives_from"),
     Chain("test_case", "software_requirement", "verified_by"),
     Chain("detailed_design", "software_requirement", "implements"),
     Chain("risk", "software_requirement", "mitigates") >>

\* chains a .qmsrc.yml may configure: the requirement side of verification,
\* and two link kinds the rule table does not know
CUSTOM_CHAINS ==
  << Chain("software_requirement", "test_case", "verified_by"),
     Chain("hazard", "hazardous_situation", "leads_to"),
     Chain("user_need", "test_case", "validated_by") >>

DEFAULT_QMS_CHAINS == << >>

\* the type and the chains are all the core reads of a Config
\* the frontmatter lists of defaultConfig (lines 39-40); the model's .qmsrc.yml
\* does not override them
Config(type, chains) ==
  [type |-> type,
   frontmatter |-> [required |-> <<"id", "title", "status">>,
                    recommended |-> <<"author", "reviewers", "approvers">>],
   traceability |-> [chains |-> chains]]

defaultConfig(type) ==
  Config(type, IF type = "device" THEN DEFAULT_DEVICE_CHAINS ELSE DEFAULT_QMS_CHAINS)

\* the parsed .qmsrc.yml: exists = FALSE when there is no file (or it is
\* empty), hasType / hasChains tell whether the key is present
ConfigFile(exists, hasType, type, hasChains, chains) ==
  [exists |-> exists, hasType |-> hasType, type |-> type,
   hasChains |-> hasChains, chains |-> chains]

NoConfigFile == ConfigFile(FALSE, FALSE, "", FALSE, << >>)

loadConfig(parsed, type) ==
  LET defaults == defaultConfig(type)
  IN IF ~parsed.exists THEN defaults
     ELSE Config(IF parsed.hasType THEN parsed.type ELSE defaults.type,
                 IF parsed.hasChains THEN parsed.chains
                 ELSE defaults.traceability.chains)

\* the inputs of a run: <<the action's type input, the parsed .qmsrc.yml>>
RunInputs ==
  { <<"device", NoConfigFile>>,
    <<"device", ConfigFile(TRUE, FALSE, "", TRUE, CUSTOM_CHAINS)>>,
    <<"device", ConfigFile(TRUE, TRUE, "qms", FALSE, << >>)>>,
    <<"qms", NoConfigFile>>,
    <<"qms", ConfigFile(TRUE, TRUE, "device", FALSE, << >>)>> }

----------------------------------------------------------------------------
(* The repositories the model runs on.                                      *)

\* a markdown file: its path, its frontmatter (id and title) and its body
\* the frontmatter of a file; undefined stands for a key that is absent
Frontmatter(id, severity, probability, residual_severity, residual_probability) ==
  [id |-> Str(id), title |-> Str(<<"Title">>),
   severity |-> severity, probability |-> probability,
   residual_severity |-> residual_severity,
   residual_probability |-> residual_probability]

File(path, id, body) ==
  [path |-> path,
   data |-> Frontmatter(id, undefined, undefined, undefined, undefined),
   body |-> body]

Ref(prefix, n) == <<"[", prefix, "-", n, "]", "(", "url", ")">>

Heading == <<"#", " ", "Title", "\n", "\n">>

TraceFiles ==
  { File(<<"product-requirements", "PRS-1.md">>, <<"PRS", "-", "1">>,
         Heading \o <<"**Derives from:**", " ">> \o Ref("UN", "1") \o <<"\n">>),
    \* a second file that declares the id PRS-1, without links
    File(<<"product-requirements", "draft.md">>, <<"PRS", "-", "1">>, Heading),
    \* a user need that points back at the product requirement
    File(<<"user-needs", "UN-1.md">>, <<"UN", "-", "1">>,
         Heading \o <<"**Derives from:**", " ">> \o Ref("PRS", "1")),
    File(<<"software-requirements", "SRS-1.md">>, <<"SRS", "-", "1">>,
         Heading \o <<"**Derives from:**", " ">> \o Ref("PRS", "1") \o <<"\n">>),
    \* a requirement that declares the verification of a test case itself
    File(<<"software-requirements", "SRS-2.md">>, <<"SRS", "-", "2">>,
         Heading \o <<"**Verifies:**", " ">> \o Ref("TC", "3") \o <<"\n">>),
    File(<<"test", "TC-1.md">>, <<"TC", "-", "1">>,
         Heading \o <<"**Verifies:**", " ">> \o Ref("SRS", "1") \o <<",", " ">>
                 \o Ref("SRS", "2") \o <<"\n">>),
    File(<<"test", "TC-2.md">>, <<"TC", "-", "2">>,
         Heading \o <<"**Validates:**", " ", "UN", "-", "1", "\n">>),
    File(<<"test", "TC-3.md">>, <<"TC", "-", "3">>, Heading),
    File(<<"risk", "software", "RISK-1.md">>, <<"RISK", "-", "1">>,
         Heading \o <<"**Analyzes:**", " ">> \o Ref("HAZ", "1") \o <<"\n">>
                 \o <<"**Mitigates:**", " ">> \o Ref("SRS", "1") \o <<"\n">>),
    File(<<"risk", "usability", "RISK-2.md">>, <<"RISK", "-", "2">>,
         Heading \o <<"**Analyzes:**", " ">> \o Ref("HAZ", "1") \o <<"\n">>
                 \o <<"**Analyzes:**", " ">> \o Ref("HAZ", "2") \o <<"\n">>),
    File(<<"risk", "RISK-3.md">>, <<"RISK", "-", "3">>,
         Heading \o <<"**Analyzes:**", " ">> \o Ref("HAZ", "2") \o <<"\n">>),
    File(<<"hazards", "HAZ-1.md">>, <<"HAZ", "-", "1">>, Heading),
    File(<<"hazards", "HAZ-2.md">>, <<"HAZ", "-", "2">>,
         Heading \o <<"**Leads to:**", " ">> \o Ref("HS", "1") \o <<"\n">>),
    File(<<"risk", "situations", "HS-1.md">>, <<"HS", "-", "1">>, Heading) }

\* the lists of at most n distinct files of a set, in every order
RECURSIVE ListsOf(_, _)
ListsOf(S, n) ==
  IF n = 0 THEN {<< >>}
  ELSE LET shorter == ListsOf(S, n - 1)
       IN shorter \cup {Append(l, f) : l \in {x \in shorter : Len(x) = n - 1},
                                       f \in S} 

MaxFiles == 3

TraceFileLists == {l \in ListsOf(TraceFiles, MaxFiles) :
                     \A i, j \in DOMAIN l : i # j => l[i].path # l[j].path}

\* a repository of n product requirements of which the first k derive from a
\* user need
BulkFile(i, linked) ==
  File(<<"product-requirements", ToString(i)>>, <<"PRS", "-", ToString(i)>>,
       IF linked THEN Heading \o <<"**Derives from:**", " ">> \o Ref("UN", "1")
       ELSE Heading)

BulkList(n, k) == [i \in 1..n |-> BulkFile(i, i <= k)]

\* <<number of source documents, number of them that are linked>>
BulkCases ==
  { <<8, 1>>, <<8, 7>>, <<8, 8>>, <<40, 23>>, <<40, 39>>,
    <<199, 198>>, <<200, 199>>, <<200, 200>> }

BulkFileLists == {BulkList(c[1], c[2]) : c \in BulkCases}

\* one row of a markdown table
Row(cells) == <<"|", " ">> \o cells \o <<" ", "|", "\n">>

RiskFile(name, data, body) ==
  [path |-> <<"risk", name>>, data |-> data, body |-> Heading \o body]

RiskFiles ==
  { \* all four values in the frontmatter (the fixture RISK-SW-001)
    RiskFile("RISK-SW-001.md",
             Frontmatter(<<"RISK", "-", "SW", "-", "001">>, Num(4), Num(3), Num(4), Num(1)),
             <<"**Mitigates:**", " ">> \o Ref("SRS", "1") \o <<"\n">>),
    \* no residual values
    RiskFile("RISK-2.md",
             Frontmatter(<<"RISK", "-", "2">>, Num(5), Num(5), undefined, undefined),
             << >>),
    \* one residual value, the other taken from the inherent value
    RiskFile("RISK-3.md",
             Frontmatter(<<"RISK", "-", "3">>, Num(2), Num(4), undefined, Num(5)),
             << >>),
    \* values in the tables of the body
    RiskFile("RISK-4.md",
             Frontmatter(<<"RISK", "-", "4">>, undefined, undefined, undefined, undefined),
             Row(<<"Parameter", " ", "|", " ", "Value">>)
             \o Row(<<"Severity", " ", "|", " ", "4", " ", "(Critical)">>)
             \o Row(<<"Probability", " ", "|", " ", "2">>)
             \o Row(<<"Residual", " ", "Severity", " ", "|", " ", "0">>)
             \o Row(<<"RESIDUAL", " ", "PROBABILITY", " ", "|", "1">>)),
    \* no values at all
    RiskFile("RISK-5.md",
             Frontmatter(<<"RISK", "-", "5">>, undefined, undefined, undefined, undefined),
             <<"Narrative", " ", "only", "\n">>),
    \* severity in the frontmatter, probability in the body
    RiskFile("RISK-6.md",
             Frontmatter(<<"RISK", "-", "6">>, Num(3), undefined, undefined, undefined),
             Row(<<"Probability", " ", "|", " ", "2">>)),
    \* a residual value of zero in the frontmatter
    RiskFile("RISK-7.md",
             Frontmatter(<<"RISK", "-", "7">>, Num(3), Num(2), Num(0), Num(2)),
             << >>),
    \* values given as strings
    RiskFile("RISK-8.md",
             Frontmatter(<<"RISK", "-", "8">>, Str(<<"3">>), Str(<<"4">>),
                         Str(<<"high">>), undefined),
             << >>),
    \* a severity outside the grid
    RiskFile("RISK-9.md",
             Frontmatter(<<"RISK", "-", "9">>, Num(7), Num(2), undefined, undefined),
             << >>),
    \* fractional values
    RiskFile("RISK-10.md",
             Frontmatter(<<"RISK", "-", "10">>, Half(5), Num(2), undefined, undefined),
             << >>),
    RiskFile("RISK-11.md",
             Frontmatter(<<"RISK", "-", "11">>, Num(2), Half(3), undefined, undefined),
             << >>),
    File(<<"software-requirements", "SRS-1.md">>, <<"SRS", "-", "1">>, Heading) }

RiskFileLists == {l \in ListsOf(RiskFiles, MaxFiles) :
                    \A i, j \in DOMAIN l : i # j => l[i].path # l[j].path}

----------------------------------------------------------------------------
(* Frontmatter validator (src/validators/frontmatter.ts).                   *)

\* idCounts.get(id): the file paths of the documents with the id, in order
pathsOfId(documents_, id) ==
  LET same == SelectSeq(documents_, LAMBDA d : d.id = id)
  IN [n \in DOMAIN same |-> same[n].filePath]

\* the warnings of one entry of idCounts (lines 22-33); the message keeps
\* the id and the other files
duplicateIdWarnings(id, paths) ==
  IF Len(paths) > 1
  THEN [n \in DOMAIN paths |->
          [file |-> paths[n],
           rule |-> "frontmatter/duplicate-id",
           message |-> [template |-> "Duplicate document ID also found in",
                        id |-> id,
                        others |-> SelectSeq(paths, LAMBDA f : f # paths[n])],
           severity |-> "warning"]]
  ELSE << >>

\* the loop over idCounts, whose keys are in the order of their first set
duplicateWarnings(documents_, firsts) ==
  Flatten([n \in DOMAIN firsts |->
             duplicateIdWarnings(documents_[firsts[n]].id,
                                 pathsOfId(documents_, documents_[firsts[n]].id))])

\* one of the two loops over the fields of a document (lines 37-58)
fieldWarnings(doc, fields, rule, template) ==
  LET missing == SelectSeq(fields, LAMBDA field :
                             Field(doc.frontmatter, field).k = "undefined")
  IN [n \in DOMAIN missing |->
        [file |-> doc.filePath,
         rule |-> rule,
         message |-> [template |-> template, id |-> <<missing[n]>>, others |-> << >>],
         severity |-> "warning"]]

validateFrontmatter(documents_, idx, cfg) ==
  duplicateWarnings(documents_, Firsts([i \in DOMAIN documents_ |-> documents_[i].id]))
  \o Flatten([d \in DOMAIN documents_ |->
                fieldWarnings(documents_[d], cfg.frontmatter.required,
                              "frontmatter/required-fields",
                              "Missing required frontmatter field")
                \o fieldWarnings(documents_[d], cfg.frontmatter.recommended,
                                 "frontmatter/optional-fields",
                                 "Missing recommended frontmatter field")])

----------------------------------------------------------------------------
(* Link validator (validateLinks).                                          *)

\* lines 17-24: the warning pushed for a link whose target is no key of byId
brokenReference(doc, link) ==
  [file |-> doc.filePath,
   rule |-> "links/broken-reference",
   message |-> [template |-> "Broken link: references (type) but no document with that ID exists",
                id |-> link.targetId,
                others |-> <<link.type>>],
   severity |-> "warning"]

\* mutant: a warning for every link
brokenLinks_EveryLink(doc, links, idx) ==
  [n \in DOMAIN links |-> brokenReference(doc, links[n])]

\* lines 16-25: the inner loop over the links of one document
brokenLinks(doc, links, idx) ==
  LET broken == SelectSeq(links, LAMBDA link : ~MapHas(idx.byId, link.targetId))
  IN [n \in DOMAIN broken |-> brokenReference(doc, broken[n])]

validateLinks(documents_, idx) ==
  Flatten([d \in DOMAIN documents_ |->
             brokenLinks(documents_[d], extractLinks(documents_[d]), idx)])

----------------------------------------------------------------------------
(* PR mode (src/index.ts, runPrMode): the comment of a run on its pull      *)
(* request.  A comment is <<id, body>>; a body records whether it holds     *)
(* COMMENT_MARKER and which run built it (0: written by somebody else).     *)

MaxRuns == 3

Runs == 1..MaxRuns

\* issues.listComments without per_page answers with the first page only
per_page == 30

\* comments other users may leave on the pull request
MaxOtherComments == 31

\* buildCommentBody: the body of run r; it holds the marker
\* (tests/validators.test.ts, 'includes hidden marker for update-in-place')
buildCommentBody(r) == [marker |-> TRUE, by |-> r]

OtherBody == [marker |-> FALSE, by |-> 0]

\* a run that has not started
Idle == [pc |-> "idle", body |-> OtherBody, existing |-> 0, order |-> 0]

\* lines 151-155: the answer of issues.listComments, in ascending id
listComments(all) == SubSeq(all, 1, Min({Len(all), per_page}))

\* lines 157-159: comments.find(c => c.body?.includes(COMMENT_MARKER)), as the
\* id of the comment found, 0 for undefined
existingComment(listed) ==
  LET hits == {i \in DOMAIN listed : listed[i].body.marker}
  IN IF hits = {} THEN 0 ELSE listed[Min(hits)].id

\* issues.updateComment
updateComment(all, comment_id, body) ==
  [i \in DOMAIN all |->
     IF all[i].id = comment_id THEN [all[i] EXCEPT !.body = body] ELSE all[i]]

\* issues.createComment
createComment(all, body) == Append(all, [id |-> Len(all) + 1, body |-> body])

\* lines 161-177
postComment(all, existing, body) ==
  IF existing # 0 THEN updateComment(all, existing, body)
  ELSE createComment(all, body)

\* the runs that have completed, and the order number of the next completion
Completed(runs) == {r \in Runs : runs[r].pc = "done"}

NextOrder(runs) == Cardinality(Completed(runs)) + 1

\* the results of a second call on the same inputs; none before it
NotCalled == [called |-> FALSE]

----------------------------------------------------------------------------
(* The run (src/index.ts, run): configuration, index, validators.           *)

Init ==
  /\ pc = "start"
  /\ repoType = ""
  /\ files = << >>
  /\ config = defaultConfig("qms")
  /\ index = EmptyIndex
  /\ documents = << >>
  /\ result = EmptyResult
  /\ matrix = NoMatrix("none")
  /\ matrixSize = 0
  /\ docLinks = << >>
  /\ frontmatterWarnings = << >>
  /\ linkWarnings = << >>
  /\ again = NotCalled
  /\ comments = << >>
  /\ prRuns = [r \in Runs |-> Idle]

\* lines 25-46 of run: the inputs, loadConfig, buildDocumentIndex, allDocs
Load(fileLists) ==
  /\ pc = "start"
  /\ \E fl \in fileLists, in \in RunInputs :
       /\ repoType' = in[1]
       /\ files' = fl
       /\ config' = loadConfig(in[2], in[1])
       /\ index' = buildDocumentIndex(fl)
       /\ documents' = MapValues(index'.byId)
  /\ pc' = "indexed"
  /\ UNCHANGED <<result, matrix, matrixSize, docLinks, frontmatterWarnings,
                 linkWarnings, again, prVars>>

LoadRepository == Load(TraceFileLists \cup BulkFileLists \cup RiskFileLists)

\* line 47 of run: validateFrontmatter(allDocs, index, config)
ValidateFrontmatter ==
  /\ pc = "indexed"
  /\ frontmatterWarnings' = validateFrontmatter(documents, index, config)
  /\ pc' = "checked"
  /\ UNCHANGED <<repoType, files, config, index, documents, result, matrix,
                 matrixSize, docLinks,
                 linkWarnings, again, prVars>>

\* line 48 of run: validateLinks(allDocs, index)
ValidateLinks ==
  /\ pc = "checked"
  /\ linkWarnings' = validateLinks(documents, index)
  /\ pc' = "linkchecked"
  /\ UNCHANGED <<repoType, files, config, index, documents, result, matrix,
                 matrixSize, docLinks, frontmatterWarnings, again, prVars>>

\* lines 50-54 of run
ValidateTraceability ==
  /\ pc = "linkchecked"
  /\ result' = validateTraceability(documents, index, config)
  /\ pc' = "validated"
  /\ UNCHANGED <<repoType, files, config, index, documents, matrix, matrixSize,
               docLinks, frontmatterWarnings,
                 linkWarnings, again, prVars>>

\* line 64 of run; a TypeError thrown by buildRiskMatrix ends the run in the
\* catch block
BuildRiskMatrix ==
  /\ pc = "validated"
  /\ matrix' = IF repoType = "device"
               THEN buildRiskMatrix(index, gridSize)
               ELSE NoMatrix("null")
  /\ matrixSize' = IF repoType = "device" THEN gridSize ELSE 0
  /\ pc' = "reported"
  /\ UNCHANGED <<repoType, files, config, index, documents, result, docLinks,
               frontmatterWarnings,
                 linkWarnings, again, prVars>>

Next ==
  \/ LoadRepository
  \/ ValidateFrontmatter
  \/ ValidateLinks
  \/ ValidateTraceability
  \/ BuildRiskMatrix

Spec == Init /\ [][Next]_vars

----------------------------------------------------------------------------
(* buildRiskMatrix as an exported function: calls with an explicit gridSize *)
(* over the index of a repository of risk documents.                        *)

GridSizes == {3, 5, 7}

LoadRiskRepository == Load(RiskFileLists)

BuildRiskMatrixOfSize ==
  /\ pc = "indexed"
  /\ \E size \in GridSizes :
       /\ matrix' = buildRiskMatrix(index, size)
       /\ matrixSize' = size
  /\ pc' = "built"
  /\ UNCHANGED <<repoType, files, config, index, documents, result, docLinks,
               frontmatterWarnings,
                 linkWarnings, again, prVars>>

GridNext == LoadRiskRepository \/ BuildRiskMatrixOfSize

GridSpec == Init /\ [][GridNext]_vars

----------------------------------------------------------------------------
(* extractLinks over bodies with one relationship line: a marker, what      *)
(* follows it on its line, and the line after it.                           *)

Markers ==
  {"**Derives from:**", "**Verifies:**", "**Validates:**", "**Implements:**",
   "**Mitigates:**", "**MITIGATES:**", "**Analyzes:**", "**Leads to:**",
   "**Results in:**"}

\* what follows the marker on its line
Remainders ==
  { <<" ">> \o Ref("SRS", "1"),
    <<" ">> \o Ref("SRS", "1") \o <<",", " ">> \o Ref("SRS", "2"),
    <<" ", "see", " ">> \o Ref("SRS", "1"),
    <<" ", "SRS", "-", "1">>,
    <<" ", "SRS", "-", "1", " ">>,
    <<" ">>,
    << >> }

\* the lines after the marker line
NextLines ==
  { << >>,
    <<"SRS", "-", "7", "\n">>,
    <<"See", " ">> \o Ref("UN", "9") \o <<"\n">>,
    Ref("UN", "9") \o <<"\n">> }

LinkBodies ==
  {Heading \o <<m>> \o r \o <<"\n">> \o s :
     m \in Markers, r \in Remainders, s \in NextLines}
  \cup {Heading \o s : s \in NextLines}

LinkFileLists == {<<File(<<"docs", "DOC-1.md">>, <<"DOC", "-", "1">>, b)>> : b \in LinkBodies}

LoadLinkRepository == Load(LinkFileLists)

\* lines 30-33 of validateTraceability: docLinks.set(doc.id, extractLinks(doc))
ExtractLinks ==
  /\ pc = "indexed"
  /\ docLinks' = [n \in DOMAIN documents |->
                    <<documents[n].id, extractLinks(documents[n])>>]
  /\ pc' = "linked"
  /\ UNCHANGED <<repoType, files, config, index, documents, result, matrix,
                 matrixSize, frontmatterWarnings,
                 linkWarnings, again, prVars>>

LinkNext == LoadLinkRepository \/ ExtractLinks

LinkSpec == Init /\ [][LinkNext]_vars

----------------------------------------------------------------------------
(* buildDocumentIndex over files with and without ids, in nested            *)
(* directories, with colliding ids.                                         *)

\* a file whose frontmatter has no id
FileWithoutId(path) ==
  [path |-> path, data |-> [title |-> Str(<<"Title">>)], body |-> Heading]

\* a file whose frontmatter declares a type
FileOfDeclaredType(path, id, type) ==
  [path |-> path,
   data |-> [id |-> Str(id), title |-> Str(<<"Title">>), type |-> Str(<<type>>)],
   body |-> Heading]

IndexFiles ==
  { File(<<"test", "TC-1.md">>, <<"TC", "-", "1">>, Heading),
    \* a test directory and the id prefix of a requirement
    File(<<"test", "SRS-9.md">>, <<"SRS", "-", "9">>, Heading),
    \* a directory of the table below the test directory
    File(<<"test", "software", "TC-2.md">>, <<"TC", "-", "2">>, Heading),
    File(<<"risk", "situations", "HS-1.md">>, <<"HS", "-", "1">>, Heading),
    \* a directory named like an inherited member, below the test directory
    File(<<"test", "constructor", "TC-3.md">>, <<"TC", "-", "3">>, Heading),
    \* no directory of the table
    File(<<"docs", "SRS-3.md">>, <<"SRS", "-", "3">>, Heading),
    File(<<"docs", "lower.md">>, <<"srs", "-", "4">>, Heading),
    File(<<"docs", "NOTE-1.md">>, <<"NOTE", "-", "1">>, Heading),
    File(<<"SOP.md">>, <<"SOP">>, Heading),
    \* the id of docs/SRS-3.md once more
    File(<<"docs", "copy.md">>, <<"SRS", "-", "3">>, Heading),
    \* no id, an empty id
    FileWithoutId(<<"docs", "README.md">>),
    File(<<"test", "empty.md">>, << >>, Heading),
    \* declared types
    FileOfDeclaredType(<<"docs", "SRS-5.md">>, <<"SRS", "-", "5">>, "policy"),
    FileOfDeclaredType(<<"docs", "X-1.md">>, <<"X", "-", "1">>, "risk") }

IndexFileLists == {l \in ListsOf(IndexFiles, MaxFiles) :
                     \A i, j \in DOMAIN l : i # j => l[i].path # l[j].path}

LoadIndexRepository == Load(IndexFileLists)

IndexNext == LoadIndexRepository

IndexSpec == Init /\ [][IndexNext]_vars

----------------------------------------------------------------------------
(* extractLinks, validateTraceability and buildRiskMatrix called twice on   *)
(* the same documents, index and configuration.  Each call starts from      *)
(* accumulators of its own, whatever an earlier call has left.              *)

LoadSnapshot == Load(TraceFileLists \cup RiskFileLists)

\* index.ts line 514: const links = []
linksAtEntry(held) == << >>

\* traceability.ts lines 21-23: warnings, coverage and gaps are new arrays
resultAtEntry(held) == EmptyResult

\* mutant: the grids, the entries and the counters of the call before are kept
matrixAtEntry_Kept(held, size) ==
  IF held.kind = "matrix" THEN held
  ELSE [NoMatrix("matrix") EXCEPT !.inherent = createGrid(size),
                                  !.residual = createGrid(size)]

\* risk-matrix.ts lines 69-76: new grids, no entries, counters at 0
matrixAtEntry(held, size) ==
  [NoMatrix("matrix") EXCEPT !.inherent = createGrid(size),
                             !.residual = createGrid(size)]

\* a call of extractLinks after a call that returned held
extractLinksAfter(held, doc) == linksAtEntry(held) \o extractLinks(doc)

\* a call of validateTraceability after a call that returned held
resultAfter(entry, returned) ==
  [warnings |-> entry.warnings \o returned.warnings,
   coverage |-> entry.coverage \o returned.coverage,
   gaps |-> entry.gaps \o returned.gaps]

validateTraceabilityAfter(held, docs, idx, cfg) ==
  resultAfter(resultAtEntry(held), validateTraceability(docs, idx, cfg))

\* a call of buildRiskMatrix after a call that returned held
buildRiskMatrixAfter(held, idx, size) ==
  IF Len(GetOrEmpty(idx.byType, "risk")) = 0 THEN NoMatrix("null")
  ELSE riskLoop(matrixAtEntry(held, size), GetOrEmpty(idx.byType, "risk"), 1, size)

\* the first calls
CallOnce ==
  /\ pc = "indexed"
  /\ docLinks' = [n \in DOMAIN documents |->
                    <<documents[n].id, extractLinks(documents[n])>>]
  /\ result' = validateTraceability(documents, index, config)
  /\ matrix' = buildRiskMatrix(index, gridSize)
  /\ matrixSize' = gridSize
  /\ pc' = "called"
  /\ UNCHANGED <<repoType, files, config, index, documents, frontmatterWarnings,
                 linkWarnings, again, prVars>>

\* the second calls, on what the first calls were given
CallAgain ==
  /\ pc = "called"
  /\ again' = [called |-> TRUE,
               links |-> [n \in DOMAIN documents |->
                            <<documents[n].id,
                              extractLinksAfter(docLinks[n][2], documents[n])>>],
               result |-> validateTraceabilityAfter(result, documents, index, config),
               matrix |-> buildRiskMatrixAfter(matrix, index, gridSize)]
  /\ pc' = "repeated"
  /\ UNCHANGED <<repoType, files, config, index, documents, result, matrix,
                 matrixSize, docLinks, frontmatterWarnings, linkWarnings, prVars>>

RepeatNext == LoadSnapshot \/ CallOnce \/ CallAgain

RepeatSpec == Init /\ [][RepeatNext]_vars

----------------------------------------------------------------------------
(* buildRiskMatrix over risk documents whose severity and probability come  *)
(* from the metadata, from the table rows of the body, from both or from    *)
(* neither, alone and next to a second risk document.                       *)

\* the severity and the probability of the metadata
MetadataSeverities == {undefined, Num(3), Num(0), Str(<<"3">>)}

MetadataProbabilities == {undefined, Num(2), Num(0)}

\* the severity rows of the body: none, one, or several of which the second
\* is the first with a digit
SeverityRows ==
  { << >>,
    Row(<<"Severity", " ", "|", " ", "4", " ", "(Critical)">>),
    Row(<<"Residual", " ", "Severity", " ", "|", " ", "2">>)
    \o Row(<<"Severity", " ", "|", " ", "high">>)
    \o Row(<<"SEVERITY", " ", "|", "4">>)
    \o Row(<<"Severity", " ", "|", " ", "5">>) }

ProbabilityRows == { << >>, Row(<<"Probability", " ", "|", " ", "1">>) }

ValueFiles ==
  {RiskFile("RISK-1.md",
            Frontmatter(<<"RISK", "-", "1">>, s, p, undefined, undefined),
            sr \o pr) :
     s \in MetadataSeverities, p \in MetadataProbabilities,
     sr \in SeverityRows, pr \in ProbabilityRows}

\* a second risk document, with both values in the metadata
OtherRiskFile ==
  RiskFile("RISK-2.md",
           Frontmatter(<<"RISK", "-", "2">>, Num(2), Num(2), undefined, undefined),
           << >>)

ValueFileLists ==
  {<<f>> : f \in ValueFiles}
  \cup {<<f, OtherRiskFile>> : f \in ValueFiles}
  \cup {<<OtherRiskFile, f>> : f \in ValueFiles}

LoadValueRepository == Load(ValueFileLists)

ValueNext == LoadValueRepository \/ BuildRiskMatrixOfSize

ValueSpec == Init /\ [][ValueNext]_vars

----------------------------------------------------------------------------
(* validateTraceability over repositories of risks, hazards, hazardous      *)
(* situations and harms: chains that are complete, chains with a hop to a   *)
(* missing document or to a document of another type, a risk whose hazard   *)
(* is not indexed.                                                          *)

HazardFileSeq ==
  << \* the hazard HAZ-9 is in no repository
     File(<<"risk", "RISK-2.md">>, <<"RISK", "-", "2">>,
          Heading \o <<"**Analyzes:**", " ">> \o Ref("HAZ", "9") \o <<"\n">>),
     File(<<"risk", "RISK-1.md">>, <<"RISK", "-", "1">>,
          Heading \o <<"**Analyzes:**", " ">> \o Ref("HAZ", "1") \o <<"\n">>),
     File(<<"risk", "RISK-3.md">>, <<"RISK", "-", "3">>,
          Heading \o <<"**Analyzes:**", " ">> \o Ref("HAZ", "2") \o <<"\n">>),
     File(<<"risk", "RISK-4.md">>, <<"RISK", "-", "4">>,
          Heading \o <<"**Analyzes:**", " ">> \o Ref("HAZ", "3") \o <<"\n">>),
     File(<<"hazards", "HAZ-1.md">>, <<"HAZ", "-", "1">>, Heading),
     File(<<"hazards", "HAZ-2.md">>, <<"HAZ", "-", "2">>,
          Heading \o <<"**Leads to:**", " ">> \o Ref("HS", "1") \o <<"\n">>),
     \* a hazard that leads to a software requirement
     File(<<"hazards", "HAZ-3.md">>, <<"HAZ", "-", "3">>,
          Heading \o <<"**Leads to:**", " ">> \o Ref("SRS", "1") \o <<"\n">>),
     File(<<"risk", "situations", "HS-1.md">>, <<"HS", "-", "1">>,
          Heading \o <<"**Results in:**", " ">> \o Ref("HARM", "1") \o <<"\n">>),
     \* the id HS-1 declared by a file in the directory of another type
     File(<<"software-requirements", "HS-1.md">>, <<"HS", "-", "1">>,
          Heading \o <<"**Results in:**", " ">> \o Ref("HARM", "1") \o <<"\n">>),
     File(<<"risk", "harms", "HARM-1.md">>, <<"HARM", "-", "1">>, Heading),
     File(<<"software-requirements", "SRS-1.md">>, <<"SRS", "-", "1">>, Heading) >>

\* the repositories: the files of every subset, in the order of discovery
HazardFileLists ==
  {SelectSeq(HazardFileSeq, LAMBDA f : f \in chosen) :
     chosen \in SUBSET Range(HazardFileSeq)}

LoadHazardRepository == Load(HazardFileLists)

\* validateTraceability as an exported function
ValidateHazardRepository ==
  /\ pc = "indexed"
  /\ result' = validateTraceability(documents, index, config)
  /\ pc' = "validated"
  /\ UNCHANGED <<repoType, files, config, index, documents, matrix, matrixSize,
                 docLinks, frontmatterWarnings, linkWarnings, again, prVars>>

HazardNext == LoadHazardRepository \/ ValidateHazardRepository

HazardSpec == Init /\ [][HazardNext]_vars

----------------------------------------------------------------------------
(* Runs in PR mode on one pull request.  The two requests of a run reach    *)
(* the server at separate moments: the listing (line 151) and the update or *)
(* creation (lines 162, 170); other users comment in between.               *)

runVars == <<pc, repoType, files, config, index, documents, result, matrix,
             matrixSize, docLinks, frontmatterWarnings, linkWarnings, again>>

\* lines 98-151: without a pull request or without a token the run returns
\* and posts nothing; otherwise it builds its body and requests the listing
startedRun(r, hasPr, hasToken, runs) ==
  IF hasPr /\ hasToken
  THEN [pc |-> "listing", body |-> buildCommentBody(r), existing |-> 0, order |-> 0]
  ELSE [pc |-> "done", body |-> OtherBody, existing |-> 0, order |-> NextOrder(runs)]

\* runs are numbered in the order in which they start
StartPrRun(r) ==
  /\ prRuns[r].pc = "idle"
  /\ r > 1 => prRuns[r - 1].pc # "idle"
  /\ \E hasPr \in BOOLEAN, hasToken \in BOOLEAN :
       prRuns' = [prRuns EXCEPT ![r] = startedRun(r, hasPr, hasToken, prRuns)]
  /\ UNCHANGED <<comments, runVars>>

\* a run started once the runs before it have completed
StartPrRunAfterOthers(r) ==
  /\ \A o \in Runs : prRuns[o].pc \in {"idle", "done"}
  /\ StartPrRun(r)

\* lines 151-159: the listing is answered, existingComment is looked up
ListComments(r) ==
  /\ prRuns[r].pc = "listing"
  /\ prRuns' = [prRuns EXCEPT ![r].pc = "listed",
                              ![r].existing = existingComment(listComments(comments))]
  /\ UNCHANGED <<comments, runVars>>

\* lines 161-177: the comment is updated or created
PostComment(r) ==
  /\ prRuns[r].pc = "listed"
  /\ comments' = postComment(comments, prRuns[r].existing, prRuns[r].body)
  /\ prRuns' = [prRuns EXCEPT ![r].pc = "done", ![r].order = NextOrder(prRuns)]
  /\ UNCHANGED runVars

\* somebody else comments on the pull request
OtherComment ==
  /\ Cardinality({i \in DOMAIN comments : comments[i].body.by = 0}) < MaxOtherComments
  /\ comments' = createComment(comments, OtherBody)
  /\ UNCHANGED <<prRuns, runVars>>

\* runs one after another
SeqPrNext ==
  \/ \E r \in Runs : StartPrRunAfterOthers(r)
  \/ \E r \in Runs : ListComments(r)
  \/ \E r \in Runs : PostComment(r)
  \/ OtherComment

SeqPrSpec == Init /\ [][SeqPrNext]_vars

\* runs that may overlap
PrNext ==
  \/ \E r \in Runs : StartPrRun(r)
  \/ \E r \in Runs : ListComments(r)
  \/ \E r \in Runs : PostComment(r)
  \/ OtherComment

PrSpec == Init /\ [][PrNext]_vars

----------------------------------------------------------------------------
(* Properties of the traceability engine.                                   *)

Validated == pc \in {"validated", "reported"} /\ config.type = "device"

Chains == config.traceability.chains

\* the documents of the by-type group of a type, and all indexed documents
Group(type) == Range(GetOrEmpty(index.byType, type))

Indexed == UNION {Range(index.byType[n][2]) : n \in DOMAIN index.byType}

\* the links a document declares itself
Declares(d, kind) == \E n \in DOMAIN extractLinks(d) : extractLinks(d)[n].type = kind

DeclaresTo(d, kind, id) ==
  \E n \in DOMAIN extractLinks(d) :
    extractLinks(d)[n].type = kind /\ extractLinks(d)[n].targetId = id

\* the links the validator holds under an id
Recorded(id, kinds) ==
  \E n \in DOMAIN docLinksGet(documents, id) : docLinksGet(documents, id)[n].type \in kinds

RecordedTo(id, kinds, target) ==
  \E n \in DOMAIN docLinksGet(documents, id) :
    /\ docLinksGet(documents, id)[n].type \in kinds
    /\ docLinksGet(documents, id)[n].targetId = target

\* the warnings of a chain about a source document
ChainWarnings(d, chain) ==
  {n \in DOMAIN result.warnings :
     /\ result.warnings[n].file = d.filePath
     /\ result.warnings[n].message = Message("has no link to a", d.id, chain)}

CountedCovered(d, chain) == ChainWarnings(d, chain) = {}

\* C1: for a chain whose link kind is not verified_by a source document is
\* counted covered exactly when it declares a link of the chain's kind itself;
\* no other document's links matter
C1_OwnLinksDecideCoverage ==
  Validated =>
    \A c \in DOMAIN Chains :
      Chains[c].link # "verified_by" =>
        \A d \in Group(Chains[c].source) :
          CountedCovered(d, Chains[c]) <=> Declares(d, Chains[c].link)

Verification == {"verified_by", "validated_by"}

Covers(d, chain) ==
  IF chain.link = "verified_by"
  THEN \/ Recorded(d.id, Verification)
       \/ \E t \in Group(chain.target) : RecordedTo(t.id, Verification, d.id)
  ELSE Recorded(d.id, {chain.link})

\* the warnings a chain added
WarningsOfChain(chain) ==
  {n \in DOMAIN result.warnings :
     /\ result.warnings[n].message.template = "has no link to a"
     /\ result.warnings[n].message.source = chain.source
     /\ result.warnings[n].message.link = chain.link
     /\ result.warnings[n].message.target = chain.target}

\* C3: per chain an uncovered source document adds exactly one warning (its
\* path) and one gap (its id) and a covered one adds none; per chain the
\* warnings number totalSources - coveredSources; warnings and gaps have the
\* same length and the i-th of each refer to the same document
C3_OneWarningAndGapPerUncovered ==
  Validated =>
    /\ Len(result.warnings) = Len(result.gaps)
    /\ \A n \in DOMAIN result.warnings :
         \E d \in Indexed :
           d.filePath = result.warnings[n].file /\ d.id = result.gaps[n].documentId
    /\ \A c \in DOMAIN Chains :
         /\ Cardinality(WarningsOfChain(Chains[c]))
              = result.coverage[c].totalSources - result.coverage[c].coveredSources
         /\ \A d \in Group(Chains[c].source) :
              /\ Cardinality(ChainWarnings(d, Chains[c]))
                   = IF Covers(d, Chains[c]) THEN 0 ELSE 1
              /\ \A n \in ChainWarnings(d, Chains[c]) :
                   /\ result.gaps[n].documentId = d.id
                   /\ result.gaps[n].gapType = <<"missing_", Chains[c].link>>

\* a chain with a covered and an uncovered source was evaluated and the
\* hazard chain added its own warning
C3_Witness ==
  /\ Validated
  /\ \E c \in DOMAIN Chains :
       /\ result.coverage[c].coveredSources >= 1
       /\ result.coverage[c].coveredSources < result.coverage[c].totalSources
       /\ WarningsOfChain(Chains[c]) # {}
  /\ \E n \in DOMAIN result.warnings : result.warnings[n].rule = "traceability/hazard-chain"

\* round(x * 100 / y) with a half rounded up, in exact arithmetic
RoundHalfUp(x, y) == (200 * x + y) \div (2 * y)

\* C4: one coverage entry per chain, in chain order, with totalSources the
\* size of the source type's group, 0 <= coveredSources <= totalSources, and
\* coveragePercent the quotient rounded half up (100 for no sources)
C4_CoveragePerChain ==
  Validated =>
    /\ Len(result.coverage) = Len(Chains)
    /\ \A c \in DOMAIN Chains :
         LET cov == result.coverage[c]
         IN /\ cov.sourceType = Chains[c].source
            /\ cov.targetType = Chains[c].target
            /\ cov.totalSources = Len(GetOrEmpty(index.byType, Chains[c].source))
            /\ 0 <= cov.coveredSources
            /\ cov.coveredSources <= cov.totalSources
            /\ cov.coveragePercent =
                 IF cov.totalSources > 0
                 THEN RoundHalfUp(cov.coveredSources, cov.totalSources)
                 ELSE 100

HasOrphan(chain) == \E d \in Group(chain.source) : ~CountedCovered(d, chain)

\* C5 as stated: a chain with an uncovered source document reports less
\* than 100, whatever the number of source documents
C5_OrphanBelow100 ==
  Validated =>
    \A c \in DOMAIN Chains :
      HasOrphan(Chains[c]) => result.coverage[c].coveragePercent < 100

\* C5 as amended: a chain with fewer than 200 source documents and an
\* uncovered one reports less than 100
C5_OrphanBelow100UpTo199 ==
  Validated =>
    \A c \in DOMAIN Chains :
      HasOrphan(Chains[c]) /\ result.coverage[c].totalSources < 200
        => result.coverage[c].coveragePercent < 100

\* a chain of 199 source documents with one orphan was evaluated
C5_Witness ==
  /\ Validated
  /\ \E c \in DOMAIN Chains :
       /\ HasOrphan(Chains[c])
       /\ result.coverage[c].totalSources = 199
       /\ result.coverage[c].coveredSources = 198
       /\ result.coverage[c].coveragePercent = 99

\* C6: with a configuration whose type is not 'device' the result is empty
C6_NonDeviceIsNoOp ==
  pc = "validated" /\ config.type # "device" =>
    /\ result.warnings = << >>
    /\ result.coverage = << >>
    /\ result.gaps = << >>

\* a qms run over a non-empty chain list and documents whose hazard chain is
\* incomplete and whose sources are uncovered
C6_Witness ==
  /\ pc = "validated"
  /\ config.type = "qms"
  /\ Chains # << >>
  /\ validateHazardChains(documents, index) # << >>
  /\ \E c \in DOMAIN Chains :
       \E d \in Group(Chains[c].source) : ~Covers(d, Chains[c])

HazardWarnings(d) ==
  {n \in DOMAIN result.warnings :
     /\ result.warnings[n].rule = "traceability/hazard-chain"
     /\ result.warnings[n].file = d.filePath}

GapsOf(id, gapType) ==
  {n \in DOMAIN result.gaps :
     result.gaps[n].documentId = id /\ result.gaps[n].gapType = <<gapType>>}

\* C7: a document that a risk analyzes and that declares no leads_to link
\* gets exactly one hazard-chain warning and exactly one hazard_no_situation
\* gap, however many risks analyze it
C7_OneWarningPerHazard ==
  Validated =>
    \A h \in Indexed :
      /\ \E r \in Group("risk") : DeclaresTo(r, "analyzes", h.id)
      /\ ~Declares(h, "leads_to")
      => /\ Cardinality(HazardWarnings(h)) = 1
         /\ Cardinality(GapsOf(h.id, "hazard_no_situation")) = 1

\* C8: every analyzes link of every risk that resolves to a document H is
\* followed: H without leads_to has a hazard_no_situation gap; a leads_to of H
\* that resolves to S without results_in has a situation_no_harm gap and a
\* warning on S's file
C8_EveryAnalyzedHazardChecked ==
  Validated =>
    \A r \in Group("risk") :
      \A n \in DOMAIN extractLinks(r) :
        extractLinks(r)[n].type = "analyzes" /\ MapHas(index.byId, extractLinks(r)[n].targetId)
        => LET h == MapGet(index.byId, extractLinks(r)[n].targetId)
           IN /\ ~Declares(h, "leads_to") => GapsOf(h.id, "hazard_no_situation") # {}
              /\ \A m \in DOMAIN extractLinks(h) :
                   /\ extractLinks(h)[m].type = "leads_to"
                   /\ MapHas(index.byId, extractLinks(h)[m].targetId)
                   => LET sit == MapGet(index.byId, extractLinks(h)[m].targetId)
                      IN ~Declares(sit, "results_in") =>
                           /\ GapsOf(sit.id, "situation_no_harm") # {}
                           /\ HazardWarnings(sit) # {}

----------------------------------------------------------------------------
(* Properties of the risk matrix.                                           *)

Reported == pc = "reported" /\ repoType = "device"

RiskDocs == GetOrEmpty(index.byType, "risk")

ZeroGrid(grid) ==
  /\ DOMAIN grid = 1..gridSize
  /\ \A p \in DOMAIN grid :
       DOMAIN grid[p] = 1..gridSize /\ \A c \in DOMAIN grid[p] : grid[p][c] = 0

\* C9: buildRiskMatrix returns null exactly when the index has no risk-typed
\* document; with risk documents of which none yields risk values it returns
\* a matrix with no risks, all-zero grids and summary.total = 0
C9_NullOnlyWithoutRiskDocuments ==
  Reported =>
    /\ matrix.kind = "null" <=> RiskDocs = << >>
    /\ /\ RiskDocs # << >>
       /\ \A n \in DOMAIN RiskDocs : ~extractRiskValues(RiskDocs[n]).found
       => /\ matrix.kind = "matrix"
          /\ matrix.risks = << >>
          /\ ZeroGrid(matrix.inherent)
          /\ ZeroGrid(matrix.residual)
          /\ matrix.summary.total = 0

\* a matrix was built from two risk documents that yield no risk values
C9_Witness ==
  /\ Reported
  /\ Len(RiskDocs) >= 2
  /\ \A n \in DOMAIN RiskDocs : ~extractRiskValues(RiskDocs[n]).found
  /\ matrix.kind = "matrix"
  /\ matrix.risks = << >>

\* the residual value of an entry when there is one, else the inherent value
Effective(residualValue, inherentValue) ==
  IF residualValue.k # "undefined" THEN residualValue ELSE inherentValue

OneToFive(v) == v.k = "num" /\ v.halves \in {2, 4, 6, 8, 10}

\* C10: an entry whose effective residual probability p and severity s are
\* both in 1..5 has the acceptability of the table cell [p-1][s-1], whatever
\* its inherent values
C10_TierFromResidual ==
  Reported /\ matrix.kind = "matrix" =>
    \A n \in DOMAIN matrix.risks :
      LET e == matrix.risks[n]
          p == Effective(e.residualProbability, e.probability)
          sev == Effective(e.residualSeverity, e.severity)
      IN OneToFive(p) /\ OneToFive(sev)
           => e.acceptability = DEFAULT_ACCEPTABILITY[p.halves \div 2][sev.halves \div 2]

\* the matrix holds an entry of inherent severity 4 / probability 3 and
\* residual severity 4 / probability 1 that is acceptable, and an entry with
\* only one residual coordinate supplied
C10_Witness ==
  /\ Reported
  /\ matrix.kind = "matrix"
  /\ \E n \in DOMAIN matrix.risks :
       /\ matrix.risks[n].severity = Num(4)
       /\ matrix.risks[n].probability = Num(3)
       /\ matrix.risks[n].residualSeverity = Num(4)
       /\ matrix.risks[n].residualProbability = Num(1)
       /\ matrix.risks[n].acceptability = "acceptable"
  /\ \E n \in DOMAIN matrix.risks :
       /\ matrix.risks[n].residualSeverity = undefined
       /\ matrix.risks[n].residualProbability = Num(5)
       /\ matrix.risks[n].acceptability = "review_required"

----------------------------------------------------------------------------
(* Risk entries and the documents they come from.                           *)

\* the risk documents that yield an entry, in the order of the entries
EntryDocs == SelectSeq(RiskDocs, LAMBDA d : extractRiskValues(d).found)

\* the residual value a document supplies for a coordinate: the metadata
\* field when the document carries it, else what the entry took from the body
Supplied(doc, key, taken) ==
  IF Field(doc.frontmatter, key).k # "undefined"
  THEN Field(doc.frontmatter, key)
  ELSE taken

OutsideOneToFive(v) == v.k = "num" /\ (v.halves < 2 \/ v.halves > 10)

\* C11: an entry with a supplied residual coordinate (or, with none supplied,
\* an inherent coordinate) that is a number outside 1..5 is review_required
C11_OutOfRangeIsReviewRequired ==
  Reported /\ matrix.kind = "matrix" =>
    \A n \in DOMAIN matrix.risks :
      LET e == matrix.risks[n]
          p == Effective(Supplied(EntryDocs[n], "residual_probability",
                                  e.residualProbability), e.probability)
          sev == Effective(Supplied(EntryDocs[n], "residual_severity",
                                    e.residualSeverity), e.severity)
      IN OutsideOneToFive(p) \/ OutsideOneToFive(sev)
           => e.acceptability = "review_required"

Built == pc = "built"

Square(grid, n) ==
  DOMAIN grid = 1..n /\ \A p \in 1..n : DOMAIN grid[p] = 1..n

\* C12: in a matrix returned for grid size n both grids are n by n, each
\* inherent cell counts the entries with that inherent (probability,
\* severity), each residual cell the entries with that effective residual
\* pair, and every document with risk values has its entry in risks, in or
\* out of the grid
C12_GridsCountEntries ==
  Built /\ matrix.kind = "matrix" =>
    /\ Square(matrix.inherent, matrixSize)
    /\ Square(matrix.residual, matrixSize)
    /\ \A p, s \in 1..matrixSize :
         /\ matrix.inherent[p][s] =
              Cardinality({k \in DOMAIN matrix.risks :
                             /\ matrix.risks[k].probability = Num(p)
                             /\ matrix.risks[k].severity = Num(s)})
         /\ matrix.residual[p][s] =
              Cardinality({k \in DOMAIN matrix.risks :
                             /\ Effective(matrix.risks[k].residualProbability,
                                          matrix.risks[k].probability) = Num(p)
                             /\ Effective(matrix.risks[k].residualSeverity,
                                          matrix.risks[k].severity) = Num(s)})
    /\ Len(matrix.risks) = Len(EntryDocs)
    /\ \A k \in DOMAIN matrix.risks : matrix.risks[k].id = EntryDocs[k].id

\* a 3 by 3 matrix with an entry counted in the inherent grid and an entry
\* whose severity 4 lies outside the grid
C12_Witness ==
  /\ Built
  /\ matrix.kind = "matrix"
  /\ matrixSize = 3
  /\ Len(matrix.risks) = 2
  /\ matrix.inherent[2][3] = 1
  /\ \E k \in DOMAIN matrix.risks :
       matrix.risks[k].severity = Num(4) /\ matrix.risks[k].probability = Num(3)

\* the number of entries of risks with a given acceptability
Tier(status) ==
  Cardinality({k \in DOMAIN matrix.risks : matrix.risks[k].acceptability = status})

\* C13: in a returned matrix summary.total is the length of risks and the sum
\* of the three tier counts, and each tier count is the number of entries
\* with that acceptability
C13_SummaryMatchesRisks ==
  Reported /\ matrix.kind = "matrix" =>
    /\ matrix.summary.total = Len(matrix.risks)
    /\ matrix.summary.total = matrix.summary.acceptable
                              + matrix.summary.reviewRequired
                              + matrix.summary.unacceptable
    /\ matrix.summary.acceptable = Tier("acceptable")
    /\ matrix.summary.reviewRequired = Tier("review_required")
    /\ matrix.summary.unacceptable = Tier("unacceptable")

----------------------------------------------------------------------------
(* Relationship lines of a body, read without the patterns of the code.     *)

Linked == pc = "linked"

\* the link kind a marker atom stands for, "" for any other atom
MarkerKind(a) ==
  CASE a \in {"**Derives from:**", "**DERIVES FROM:**"} -> "derives_from"
    [] a \in {"**Verifies:**", "**VERIFIES:**"} -> "verified_by"
    [] a \in {"**Validates:**", "**VALIDATES:**"} -> "validated_by"
    [] a \in {"**Implements:**", "**IMPLEMENTS:**"} -> "implements"
    [] a \in {"**Mitigates:**", "**MITIGATES:**"} -> "mitigates"
    [] a \in {"**Analyzes:**", "**ANALYZES:**"} -> "analyzes"
    [] a \in {"**Leads to:**", "**LEADS TO:**"} -> "leads_to"
    [] a \in {"**Results in:**", "**RESULTS IN:**"} -> "results_in"
    [] OTHER -> ""

MarkerPositions(body) == {i \in DOMAIN body : MarkerKind(body[i]) # ""}

\* the rest of the line after position i
Remainder(body, i) ==
  LET breaks == {j \in (i + 1)..Len(body) : body[j] = "\n"}
  IN SubSeq(body, i + 1, IF breaks = {} THEN Len(body) ELSE Min(breaks) - 1)

\* the closing bracket of the bracket-delimited identifier opening at j, 0
\* when none opens there
ClosingOf(r, j) ==
  LET closers == {k \in (j + 2)..Len(r) :
                    r[k] = "]" /\ \A x \in (j + 1)..(k - 1) : r[x] \notin {"[", "]"}}
  IN IF r[j] = "[" /\ closers # {} THEN Min(closers) ELSE 0

\* the bracket-delimited identifiers of a remainder, left to right
BracketIds(r) ==
  LET opens == SelectSeq([j \in DOMAIN r |-> j], LAMBDA j : ClosingOf(r, j) # 0)
  IN [n \in DOMAIN opens |-> SubSeq(r, opens[n] + 1, ClosingOf(r, opens[n]) - 1)]

LinksOfKind(ls, kind) == SelectSeq(ls, LAMBDA l : l.type = kind)

\* C14: a marker line whose remainder holds k >= 1 bracket-delimited
\* identifiers yields exactly k links of the marker's kind, one per
\* identifier, left to right
C14_OneLinkPerBracketedId ==
  Linked =>
    \A d \in DOMAIN documents :
      \A i \in MarkerPositions(documents[d].body) :
        LET ids == BracketIds(Remainder(documents[d].body, i))
            kind == MarkerKind(documents[d].body[i])
        IN ids # << >> =>
             LinksOfKind(docLinks[d][2], kind)
               = [n \in DOMAIN ids |-> [type |-> kind, targetId |-> ids[n]]]

NoBrackets(r) == \A j \in DOMAIN r : r[j] \notin {"[", "]"}

\* C15: a marker line whose remainder is not blank and holds no brackets
\* yields exactly one link of the marker's kind, to the trimmed remainder
C15_UnbracketedRemainderIsTarget ==
  Linked =>
    \A d \in DOMAIN documents :
      \A i \in MarkerPositions(documents[d].body) :
        LET r == Remainder(documents[d].body, i)
            kind == MarkerKind(documents[d].body[i])
        IN trim(r) # << >> /\ NoBrackets(r) =>
             LinksOfKind(docLinks[d][2], kind) = <<[type |-> kind, targetId |-> trim(r)]>>

\* the link comes from what follows a marker of its kind on the marker's
\* line: one of the bracket-delimited identifiers there, or the trimmed
\* remainder
FromMarkerLine(body, l) ==
  \E i \in MarkerPositions(body) :
    /\ MarkerKind(body[i]) = l.type
    /\ \/ l.targetId \in Range(BracketIds(Remainder(body, i)))
       \/ l.targetId = trim(Remainder(body, i))

\* C16: every link extractLinks returns comes from the text that follows a
\* marker on the marker's own line; a body without a marker yields none, a
\* marker with nothing after it on its line yields none
C16_LinksOnlyFromMarkerLines ==
  Linked =>
    \A d \in DOMAIN documents :
      /\ \A n \in DOMAIN docLinks[d][2] :
           FromMarkerLine(documents[d].body, docLinks[d][2][n])
      /\ \A i \in MarkerPositions(documents[d].body) :
           trim(Remainder(documents[d].body, i)) = << >>
             => LinksOfKind(docLinks[d][2], MarkerKind(documents[d].body[i])) = << >>

----------------------------------------------------------------------------
(* The index against the list of discovered files.                          *)

Loaded == pc = "indexed"

\* the id a file declares, << >> when it declares none
DeclaredId(f) == IF "id" \in DOMAIN f.data THEN f.data.id.s ELSE << >>

\* the positions in files of the files with a non-empty id
WithId == {i \in DOMAIN files : DeclaredId(files[i]) # << >>}

\* the documents of all by-type groups, as <<group, position>>
Grouped ==
  UNION {{<<g, k>> : k \in DOMAIN index.byType[g][2]} : g \in DOMAIN index.byType}

\* the position in files of the file a document was parsed from
FileOf(doc) == CHOOSE i \in DOMAIN files : files[i].path = doc.filePath

\* C17: a file without a non-empty id is in none of the three views; byPath
\* has exactly one entry per file with an id; every such document is exactly
\* once in byType, in the group of its docType, the groups in discovery
\* order; byId maps each id to the last-discovered document with that id
C17_IndexViews ==
  Loaded =>
    /\ \A i \in DOMAIN files \ WithId :
         /\ \A n \in DOMAIN index.byId : index.byId[n][2].filePath # files[i].path
         /\ \A n \in DOMAIN index.byPath : index.byPath[n][1] # files[i].path
         /\ \A gk \in Grouped :
              index.byType[gk[1]][2][gk[2]].filePath # files[i].path
    /\ Len(index.byPath) = Cardinality(WithId)
    /\ \A i \in WithId :
         /\ Cardinality({n \in DOMAIN index.byPath :
                           index.byPath[n][1] = files[i].path}) = 1
         /\ MapGet(index.byPath, files[i].path).id = DeclaredId(files[i])
         /\ Cardinality({gk \in Grouped :
                           index.byType[gk[1]][2][gk[2]].filePath = files[i].path}) = 1
    /\ \A gk \in Grouped :
         index.byType[gk[1]][2][gk[2]].docType = index.byType[gk[1]][1]
    /\ \A g, h \in DOMAIN index.byType : g # h => index.byType[g][1] # index.byType[h][1]
    /\ \A g \in DOMAIN index.byType :
         \A k, m \in DOMAIN index.byType[g][2] :
           k < m => FileOf(index.byType[g][2][k]) < FileOf(index.byType[g][2][m])
    /\ \A i \in WithId :
         /\ Cardinality({n \in DOMAIN index.byId :
                           index.byId[n][1] = DeclaredId(files[i])}) = 1
         /\ MapGet(index.byId, DeclaredId(files[i])).filePath =
              files[Max({j \in WithId : DeclaredId(files[j]) = DeclaredId(files[i])})].path
    /\ \A n \in DOMAIN index.byId : \E i \in WithId : DeclaredId(files[i]) = index.byId[n][1]

\* three files were discovered: one without an id, then two that declare the
\* same id
C17_Witness ==
  /\ Loaded
  /\ Len(files) = 3
  /\ DeclaredId(files[1]) = << >>
  /\ DeclaredId(files[2]) = DeclaredId(files[3])
  /\ DeclaredId(files[2]) # << >>
  /\ Len(index.byId) = 1
  /\ Len(index.byPath) = 2
  /\ index.byId[1][2].filePath = files[3].path

\* the directory segments of a relative path that are keys of the table
TableDirs(path) == {i \in 1..(Len(path) - 1) : path[i] \in DirTypeKeys}

\* the type the two tables give a file: the deepest directory segment that
\* is a key of the directory table, else the id prefix, else unknown
TypeByTables(path, id) ==
  IF TableDirs(path) # {} THEN DIR_TYPE_MAP(path[Max(TableDirs(path))])
  ELSE IF Len(FirstPart(id)) = 1 THEN prefixMap(UpperCase(FirstPart(id)[1]))
  ELSE "unknown"

\* C18: the docType of every indexed document is the type the directory
\* table gives its deepest matching directory segment, else the type the
\* prefix table gives the upper-cased id prefix, else unknown; a type
\* declared in the metadata plays no part
C18_DocTypeByDirectoryThenPrefix ==
  Loaded =>
    \A n \in DOMAIN index.byPath :
      index.byPath[n][2].docType
        = TypeByTables(index.byPath[n][2].filePath, index.byPath[n][2].id)

\* the directory segments named for test cases
TestDirs(path) == {i \in 1..(Len(path) - 1) : path[i] = "test"}

DeepestLookedUp(path, i) ==
  \A j \in (i + 1)..(Len(path) - 1) : path[j] \notin DirTypeKeys \cup InheritedKeys

----------------------------------------------------------------------------
(* Duplicate ids.                                                           *)

FrontmatterChecked == pc \in {"checked", "linkchecked", "validated", "reported"}

\* C20: when two or more discovered files declare the same id, the run's
\* validateFrontmatter emits a frontmatter/duplicate-id warning for each of
\* those files
C20_DuplicateIdWarned ==
  FrontmatterChecked =>
    \A i, j \in WithId :
      i # j /\ DeclaredId(files[i]) = DeclaredId(files[j]) =>
        \E n \in DOMAIN frontmatterWarnings :
          /\ frontmatterWarnings[n].rule = "frontmatter/duplicate-id"
          /\ frontmatterWarnings[n].file = files[i].path

----------------------------------------------------------------------------
(* Properties of the link validator.                                        *)

LinkChecked == pc \in {"linkchecked", "validated", "reported"}

\* the warnings of linkWarnings for a link of the document at filePath
WarningsFor(filePath, link) ==
  {i \in DOMAIN linkWarnings :
     /\ linkWarnings[i].file = filePath
     /\ linkWarnings[i].message.id = link.targetId
     /\ linkWarnings[i].message.others = <<link.type>>}

Occurrences(ls, link) == Cardinality({j \in DOMAIN ls : ls[j] = link})

\* C21: validateLinks emits exactly one links/broken-reference warning, under
\* the declaring document's file, for each extracted link whose target id is
\* no key of the by-id index, none for a link whose target id is a key, and
\* nothing else; extractLinks returns links of both sorts.
C21_OneWarningPerBrokenLink ==
  LinkChecked =>
    /\ \A n \in DOMAIN documents :
         \A link \in Range(extractLinks(documents[n])) :
           Cardinality(WarningsFor(documents[n].filePath, link))
             = IF MapHas(index.byId, link.targetId) THEN 0
               ELSE Occurrences(extractLinks(documents[n]), link)
    /\ \A i \in DOMAIN linkWarnings :
         /\ linkWarnings[i].rule = "links/broken-reference"
         /\ linkWarnings[i].severity = "warning"
         /\ \E n \in DOMAIN documents :
              /\ documents[n].filePath = linkWarnings[i].file
              /\ \E link \in Range(extractLinks(documents[n])) :
                   i \in WarningsFor(documents[n].filePath, link)

\* a document with a link to a known document and a link to an unknown one,
\* and one warning in all
C21_Witness ==
  /\ LinkChecked
  /\ Len(linkWarnings) = 1
  /\ \E n \in DOMAIN documents :
       /\ \E link \in Range(extractLinks(documents[n])) :
            MapHas(index.byId, link.targetId)
       /\ \E link \in Range(extractLinks(documents[n])) :
            ~MapHas(index.byId, link.targetId)

----------------------------------------------------------------------------
(* Properties of the risk matrix builder: malformed documents.              *)

\* C22: no document content makes the batch abort: whatever the metadata of
\* the risk documents, buildRiskMatrix returns a matrix or null and raises no
\* error, so the run is not marked failed.
C22_NoDocumentAbortsTheBatch ==
  pc = "reported" => matrix.kind \in {"matrix", "null"}

----------------------------------------------------------------------------
(* Properties of PR mode.                                                   *)

\* no run is between its start and its completion
Quiescent == \A r \in Runs : prRuns[r].pc \in {"idle", "done"}

\* the comments of the pull request whose body holds the marker
Marked == {i \in DOMAIN comments : comments[i].body.marker}

\* the completed runs that had a pull request and a token
Posted == {r \in Completed(prRuns) : prRuns[r].body.marker}

\* the latest of them
IsLatest(r) == r \in Posted /\ \A o \in Posted : prRuns[o].order <= prRuns[r].order

\* C23: after any number of completed runs with a token, executed one after
\* another on the same pull request, there is at most one comment that holds
\* the marker, and its body is the body built by the latest run.
C23_OneCommentWithLatestBody ==
  Quiescent /\ Posted # {} =>
    /\ Cardinality(Marked) <= 1
    /\ \A i \in Marked : \E r \in Runs : IsLatest(r) /\ comments[i].body = prRuns[r].body

\* C30: when PR-mode runs on the same pull request overlap, their listings
\* and their creations or updates interleaving in any order, the pull request
\* still ends with at most one comment that holds the marker.
C30_OverlappingRunsLeaveOneComment ==
  Quiescent => Cardinality(Marked) <= 1

----------------------------------------------------------------------------
(* Properties of repeated calls.                                            *)

Repeated == pc = "repeated"

----------------------------------------------------------------------------
(* Properties of the hazard chains.                                         *)

\* the document an id names, for an id that is a key of the by-id index
Doc(id) == MapGet(index.byId, id)

\* the first analyzes link of a risk names an indexed document
Analyzed(risk) ==
  /\ Declares(risk, "analyzes")
  /\ MapHas(index.byId, findLink(extractLinks(risk), "analyzes").targetId)

HazardOf(risk) == findLink(extractLinks(risk), "analyzes").targetId

\* d declares a link of the kind to an indexed document of the type
LinkedToTyped(d, kind, type) ==
  \E n \in DOMAIN extractLinks(d) :
    /\ extractLinks(d)[n].type = kind
    /\ MapHas(index.byId, extractLinks(d)[n].targetId)
    /\ Doc(extractLinks(d)[n].targetId).docType = type

\* the hazard leads to an existing hazardous situation that results in an
\* existing harm
CompleteChain(h) ==
  \E n \in DOMAIN extractLinks(h) :
    /\ extractLinks(h)[n].type = "leads_to"
    /\ MapHas(index.byId, extractLinks(h)[n].targetId)
    /\ Doc(extractLinks(h)[n].targetId).docType = "hazardous_situation"
    /\ LinkedToTyped(Doc(extractLinks(h)[n].targetId), "results_in", "harm")

\* the hazard-chain gaps about a hazard: its own, and those of the documents
\* it leads to
ChainGaps(h) ==
  GapsOf(h.id, "hazard_no_situation")
  \cup UNION {GapsOf(extractLinks(h)[n].targetId, "situation_no_harm") :
                n \in {m \in DOMAIN extractLinks(h) : extractLinks(h)[m].type = "leads_to"}}

\* C25: no hazard-chain gap is reported for the hazard a risk analyzes only if
\* the hazard leads to an existing hazardous situation and that situation
\* results in an existing harm; a hop to a missing document or to a document
\* of another type produces a gap.
C25_NoGapOnlyForCompleteChain ==
  Validated =>
    \A risk \in Group("risk") :
      Analyzed(risk) /\ ChainGaps(Doc(HazardOf(risk))) = {}
        => CompleteChain(Doc(HazardOf(risk)))

\* the first analyzes link of a risk names no indexed document
Unresolved(risk) ==
  /\ Declares(risk, "analyzes")
  /\ ~MapHas(index.byId, findLink(extractLinks(risk), "analyzes").targetId)

\* the warnings and the gaps of the hazard chains
HazardChainWarnings ==
  {n \in DOMAIN result.warnings : result.warnings[n].rule = "traceability/hazard-chain"}

HazardChainGaps ==
  {n \in DOMAIN result.gaps :
     result.gaps[n].gapType \in {<<"hazard_no_situation">>, <<"situation_no_harm">>}}

\* C26: a risk whose analyzes link names an id that is no key of the by-id
\* index contributes no hazard-chain warning and no hazard-chain gap (none
\* names the id, and there are no more of them than risks with an indexed
\* hazard), and the other risks are still evaluated: a hazard without leads_to
\* link that one of them analyzes has its warning and its gap.
C26_UnresolvedAnchorIsSkipped ==
  Validated =>
    /\ \A risk \in Group("risk") :
         Unresolved(risk) =>
           /\ \A n \in HazardChainGaps : result.gaps[n].documentId # HazardOf(risk)
           /\ \A n \in HazardChainWarnings :
                result.warnings[n].message.id # HazardOf(risk)
    /\ Cardinality(HazardChainWarnings)
         <= Cardinality({risk \in Group("risk") : Analyzed(risk)})
    /\ Cardinality(HazardChainGaps)
         <= Cardinality({risk \in Group("risk") : Analyzed(risk)})
    /\ \A other \in Group("risk") :
         Analyzed(other) /\ ~Declares(Doc(HazardOf(other)), "leads_to") =>
           /\ GapsOf(HazardOf(other), "hazard_no_situation") # {}
           /\ HazardWarnings(Doc(HazardOf(other))) # {}

\* the first risk analyzes a hazard that is not indexed, the risk after it a
\* hazard without leads_to link, which is reported
C26_Witness ==
  /\ Validated
  /\ Len(GetOrEmpty(index.byType, "risk")) > 1
  /\ Unresolved(GetOrEmpty(index.byType, "risk")[1])
  /\ Analyzed(GetOrEmpty(index.byType, "risk")[2])
  /\ ~Declares(Doc(HazardOf(GetOrEmpty(index.byType, "risk")[2])), "leads_to")
  /\ Cardinality(HazardChainGaps) = 1
  /\ Cardinality(HazardChainWarnings) = 1

----------------------------------------------------------------------------
(* Properties of the extraction of risk values.                             *)

\* the entries of the matrix that come from a document
EntriesOf(d) == {n \in DOMAIN matrix.risks : matrix.risks[n].id = d.id}

\* the metadata of the document carries the field
InMetadata(d, key) == Field(d.frontmatter, key).k # "undefined"

\* the body has a table row with a digit for the word
InBody(d, word) == bodyMatch(d.body, <<word>>) # undefined

\* C27: the inherent values of the entry of a risk document are the metadata
\* fields severity and probability whenever both are present in the metadata,
\* whatever the body holds; only when one of them is absent from the metadata
\* are they read from the body, each as the first digit of the first row
\* '| Severity | <digit>' / '| Probability | <digit>'.
C27_MetadataBeforeBody ==
  Built /\ matrix.kind = "matrix" =>
    \A d \in Range(RiskDocs) :
      IF InMetadata(d, "severity") /\ InMetadata(d, "probability")
      THEN /\ EntriesOf(d) # {}
           /\ \A n \in EntriesOf(d) :
                /\ matrix.risks[n].severity = Number(Field(d.frontmatter, "severity"))
                /\ matrix.risks[n].probability = Number(Field(d.frontmatter, "probability"))
      ELSE \A n \in EntriesOf(d) :
             /\ matrix.risks[n].severity = bodyMatch(d.body, <<"severity">>)
             /\ matrix.risks[n].probability = bodyMatch(d.body, <<"probability">>)

\* neither the metadata nor the table rows of the body give the document a
\* severity or a probability
NoValues(d) ==
  /\ ~InMetadata(d, "severity") /\ ~InMetadata(d, "probability")
  /\ ~InBody(d, "severity") /\ ~InBody(d, "probability")

\* the sum of the cells of a grid
RECURSIVE SumOf(_)
SumOf(row) == IF row = << >> THEN 0 ELSE Head(row) + SumOf(Tail(row))

CellSum(grid) == SumOf([p \in DOMAIN grid |-> SumOf(grid[p])])

\* C28: a risk document without any severity or probability contributes no
\* entry, no grid increment and no summary count (the counts and the cells
\* never exceed the entries, the entries never the documents with values),
\* and the other risk documents are still processed: one with both values in
\* its metadata has its entry.
C28_DocumentWithoutValuesIsSkipped ==
  Built /\ matrix.kind = "matrix" =>
    /\ \A d \in Range(RiskDocs) : NoValues(d) => EntriesOf(d) = {}
    /\ Len(matrix.risks) <= Cardinality({n \in DOMAIN RiskDocs : ~NoValues(RiskDocs[n])})
    /\ matrix.summary.total = Len(matrix.risks)
    /\ matrix.summary.acceptable + matrix.summary.reviewRequired
         + matrix.summary.unacceptable <= Len(matrix.risks)
    /\ CellSum(matrix.inherent) <= Len(matrix.risks)
    /\ CellSum(matrix.residual) <= Len(matrix.risks)
    /\ \A d \in Range(RiskDocs) :
         /\ Truthy(Field(d.frontmatter, "severity"))
         /\ Truthy(Field(d.frontmatter, "probability"))
         => Cardinality(EntriesOf(d)) = 1

\* a document without values, listed first, and the entry, the increments and
\* the count of the document after it
C28_Witness ==
  /\ Built /\ matrix.kind = "matrix"
  /\ Len(RiskDocs) = 2
  /\ NoValues(RiskDocs[1])
  /\ Len(matrix.risks) = 1
  /\ matrix.risks[1].id = RiskDocs[2].id
  /\ CellSum(matrix.inherent) = 1
  /\ matrix.summary.total = 1

\* the document has a value for the field, in its metadata or in a table row
\* of its body
Available(d, key) == InMetadata(d, key) \/ InBody(d, key)

\* C29: a risk document contributes exactly one entry whenever a severity and
\* a probability are each available for it from the metadata or from the body
\* tables, also when one comes from the metadata and the other from the body.
C29_OneEntryWhenBothAvailable ==
  Built /\ matrix.kind = "matrix" =>
    \A d \in Range(RiskDocs) :
      Available(d, "severity") /\ Available(d, "probability")
        => Cardinality(EntriesOf(d)) = 1

====
